---- MODULE Spec2Model ----
(***************************************************************************)
(* State-machine model of the request handlers under src/backend/lambda:   *)
(* dashboard_handler, medication_handler, patient_handler, genai_handler,  *)
(* prediction_workflow_handler, training_handler and inference_handler.    *)
(*                                                                         *)
(* Conventions                                                             *)
(*  - A Python dict is a TLA+ function whose DOMAIN is the set of keys the *)
(*    dict holds; dict.get(k, d) is Get(d0, k, d).                         *)
(*  - Rates and scores (adherence, risk) are integers in thousandths, so   *)
(*    0.7 is 700.  A quotient that Python keeps as a float is kept as an   *)
(*    exact fraction <<numerator, denominator>> until it is rounded.       *)
(*  - A path is the sequence of its segments: "/genai/context/reset" is    *)
(*    <<"genai", "context", "reset">>; the test '/x/y' in path is          *)
(*    Contains(path, <<"x", "y">>).                                        *)
(*  - A handler's return value is a record; a handler that raises yields   *)
(*    Raise(message), which lambda_handler's except clause turns into the  *)
(*    500 response.                                                        *)
(***************************************************************************)
EXTENDS Integers, Sequences, FiniteSets, TLC

VARIABLES
    patients,       \* PATIENTS_TABLE, in scan order
    interventions,  \* INTERVENTIONS_TABLE
    notes,          \* CARE_NOTES_TABLE
    alerts,         \* ALERTS_TABLE
    jobs,           \* PREDICTION_JOBS_TABLE
    schedules,      \* PREDICTION_SCHEDULES_TABLE
    conversations,  \* CONVERSATIONS_TABLE
    rules,          \* the EventBridge rules that exist
    minted,         \* how many uuid4 values have been drawn
    extCalls,       \* the external-service calls of the last invocation
    now,            \* datetime.now(): [day, sec, usec]
    req,            \* the event of the last invocation
    resp            \* what the last invocation returned

vars == <<patients, interventions, notes, alerts, jobs, schedules,
          conversations, rules, minted, extCalls, now, req, resp>>

-----------------------------------------------------------------------------
(* Bounds of the model *)

MaxPatients == 3
NumStreams == 3
MaxItems == 1
MaxMessages == 2
MaxTicks == 1
MaxSeconds == 1
MaxAlerts == 4
StartDay == 819

-----------------------------------------------------------------------------
(* Python and JSON helpers *)

Get(d, k, default) == IF k \in DOMAIN d THEN d[k] ELSE default

Has(d, k) == k \in DOMAIN d

RECURSIVE SumSeq(_)
SumSeq(s) == IF s = <<>> THEN 0 ELSE Head(s) + SumSeq(Tail(s))

RECURSIVE Flatten(_)
Flatten(ss) == IF ss = <<>> THEN <<>> ELSE Head(ss) \o Flatten(Tail(ss))

Count(s, P(_)) == Cardinality({i \in 1..Len(s) : P(s[i])})

Min2(a, b) == IF a <= b THEN a ELSE b
Max2(a, b) == IF a >= b THEN a ELSE b

\* list.sort(key=...): a stable sort; Before(x, y) is "x's key orders
\* strictly before y's key".
StableSort(s, Before(_, _)) ==
    LET n == Len(s)
        rank(i) == Cardinality({j \in 1..n :
                        \/ Before(s[j], s[i])
                        \/ (~Before(s[i], s[j]) /\ j < i)}) + 1
    IN  [k \in 1..n |-> s[CHOOSE i \in 1..n : rank(i) = k]]

\* s[a:b] for 0 <= a, 0 <= b
Slice(s, a, b) == SubSeq(s, a + 1, Min2(b, Len(s)))

\* the first occurrence of every value, in order
RECURSIVE Dedup(_)
Dedup(s) ==
    IF s = <<>> THEN <<>>
    ELSE LET r == Dedup(SubSeq(s, 1, Len(s) - 1))
             x == s[Len(s)]
         IN  IF \E i \in 1..Len(r) : r[i] = x THEN r ELSE Append(r, x)

\* A fraction n/d, d > 0.
Frac(n, d) == <<n, d>>

\* sum(xs) / len(xs) if xs else 0
MeanOf(xs) == IF xs = <<>> THEN Frac(0, 1) ELSE Frac(SumSeq(xs), Len(xs))

\* the clamp left out
NoClamp(f) == f

\* max(0, min(1, f)) on a fraction of thousandths
Clamp01(f) == Frac(Max2(0, Min2(1000 * f[2], f[1])), f[2])

FracAdd(f, k) == Frac(f[1] + k * f[2], f[2])

\* f >= k and f < k for a fraction f and an integer k (thousandths)
FracGe(f, k) == f[1] >= k * f[2]
FracLt(f, k) == f[1] < k * f[2]

\* round(x, 3): the nearest thousandth, ties to the even one
Round3(f) ==
    LET q == f[1] \div f[2]
        r == f[1] - q * f[2]
    IN  IF 2 * r < f[2] THEN q
        ELSE IF 2 * r > f[2] THEN q + 1
        ELSE IF q % 2 = 0 THEN q ELSE q + 1

\* json.dumps(value, cls=DecimalEncoder): the JSON text of value
JsonDumps(value) == [json |-> value]

JsonHeaders ==
    ("Content-Type" :> "application/json") @@ ("Access-Control-Allow-Origin" :> "*")

\* the 200/201/202 responses the handler functions build
Ok(code, value) ==
    [statusCode |-> code, headers |-> JsonHeaders, body |-> JsonDumps(value)]

\* the error responses the routed handlers build inline: no headers key
Err(code, message) ==
    [statusCode |-> code, body |-> JsonDumps([error |-> message])]

\* an exception propagating out of a handler function
Raise(message) == [raised |-> message]

IsRaise(r) == "raised" \in DOMAIN r

\* Python's None: a missing 'Item', and the implicit "return None"
None == [none |-> TRUE]

NoneResponse == None

\* lambda_handler's "except Exception as e" clause
Catch500(r) == IF IsRaise(r) THEN Err(500, r.raised) ELSE r

\* '/a/b' in path
Contains(path, needle) ==
    \E i \in 0..(Len(path) - Len(needle)) :
        \A j \in 1..Len(needle) : path[i + j] = needle[j]

-----------------------------------------------------------------------------
(* Calendar: strftime('%Y-%m') of a day number, years of 365 days *)

MonthLengths == <<31, 28, 31, 30, 31, 30, 31, 31, 30, 31, 30, 31>>

YearMonth(day) ==
    LET y == day \div 365
        doy == day - 365 * y
        cum(m) == SumSeq(SubSeq(MonthLengths, 1, m))
        m == CHOOSE k \in 1..12 : cum(k - 1) <= doy /\ doy < cum(k)
    IN  12 * y + m

\* random.uniform(-0.05, 0.05): the i-th draw of random stream s
Variation(s, i) ==
    CASE s = 0 -> -50
      [] s = 1 -> 50
      [] OTHER -> ((37 * (i + s)) % 101) - 50

-----------------------------------------------------------------------------
(* dashboard_handler.py: aggregation over the patient list *)

\* the (patient, medication entry) pairs, in iteration order
MedEntries(ps) ==
    Flatten([i \in 1..Len(ps) |->
        LET meds == Get(ps[i], "medications", <<>>)
        IN  [j \in 1..Len(meds) |->
                [name |-> Get(meds[j], "name", "Unknown"),
                 adherence |-> Get(ps[i], "adherence_rate", 0),
                 risk_score |-> Get(ps[i], "risk_score", 0)]]])

\* medication_stats, in dict insertion order
MedicationStats(ps) ==
    LET es == MedEntries(ps)
        names == Dedup([k \in 1..Len(es) |-> es[k].name])
        of(n) == SelectSeq(es, LAMBDA e : e.name = n)
    IN  [k \in 1..Len(names) |->
            [name |-> names[k],
             total_patients |-> Len(of(names[k])),
             high_risk_patients |->
                 Len(SelectSeq(of(names[k]), LAMBDA e : e.risk_score >= 700)),
             adherence_sum |-> SumSeq([x \in 1..Len(of(names[k])) |->
                                          of(names[k])[x].adherence])]]

\* 1 - adherence_sum / total_patients
NonAdherence(stats) ==
    Frac(1000 * stats.total_patients - stats.adherence_sum, stats.total_patients)

\* the High cut point taken as a strict one
RiskLevelStrict(non_adherence_rate) ==
    IF non_adherence_rate[1] > 300 * non_adherence_rate[2] THEN "High"
    ELSE IF FracGe(non_adherence_rate, 150) THEN "Medium"
    ELSE "Low"

RiskLevel(non_adherence_rate) ==
    IF FracGe(non_adherence_rate, 300) THEN "High"
    ELSE IF FracGe(non_adherence_rate, 150) THEN "Medium"
    ELSE "Low"

get_medication_risks(ps) ==
    LET stats == MedicationStats(ps)
        medication_risks ==
            [k \in 1..Len(stats) |->
                [medicationName |-> stats[k].name,
                 nonAdherenceRate |-> Round3(NonAdherence(stats[k])),
                 patientCount |-> stats[k].total_patients,
                 riskLevel |-> RiskLevel(NonAdherence(stats[k]))]]
    IN  StableSort(medication_risks,
                   LAMBDA x, y : x.nonAdherenceRate > y.nonAdherenceRate)

\* sum(p.get('adherence_rate', 0) for p in patients) / len(patients) if patients else 0
TrendMean(ps) ==
    MeanOf([i \in 1..Len(ps) |-> Get(ps[i], "adherence_rate", 0)])

calculate_adherence_trend(ps, months, today, stream) ==
    LET point(i) ==
            [date |-> YearMonth(today - 30 * i),
             adherenceRate |->
                 Round3(Clamp01(FracAdd(TrendMean(ps), Variation(stream, i)))),
             patientCount |-> Len(ps)]
    \* trend_data.reverse(): index 1 is i = months - 1
    IN  [k \in 1..months |-> point(months - k)]

HighRiskCount(ps) == Count(ps, LAMBDA p : Get(p, "risk_score", 0) >= 700)

\* the medium band without its upper cut point
MediumRiskCountNoUpper(ps) == Count(ps, LAMBDA p : 400 <= Get(p, "risk_score", 0))

MediumRiskCount(ps) ==
    Count(ps, LAMBDA p : 400 <= Get(p, "risk_score", 0) /\ Get(p, "risk_score", 0) < 700)

\* the mean over the records that hold the key adherence_rate
OverallAdherence(ps) ==
    LET defined == SelectSeq(ps, LAMBDA p : Has(p, "adherence_rate"))
    IN  MeanOf([i \in 1..Len(defined) |-> defined[i]["adherence_rate"]])

get_dashboard_metrics(ps, today, stream) ==
    Ok(200, [totalPatients |-> Len(ps),
             highRiskCount |-> HighRiskCount(ps),
             mediumRiskCount |-> MediumRiskCount(ps),
             adherenceRate |-> Round3(OverallAdherence(ps)),
             adherenceTrend |-> calculate_adherence_trend(ps, 6, today, stream),
             topMedications |-> Slice(get_medication_risks(ps), 0, 5)])

get_adherence_trends(ps, time_range, today, stream) ==
    LET months == IF time_range = "12months" THEN 12 ELSE 6
    IN  Ok(200, [trends |-> calculate_adherence_trend(ps, months, today, stream)])

get_top_medications(ps) ==
    Ok(200, [medications |-> get_medication_risks(ps)])

-----------------------------------------------------------------------------
(* medication_handler.py: aggregation over the patient list *)

\* the patients with a medication entry whose med.get('name') is the name
MedPatients(ps, medication_name) ==
    SelectSeq(ps, LAMBDA p :
        LET meds == Get(p, "medications", <<>>)
        IN  \E j \in 1..Len(meds) :
                Has(meds[j], "name") /\ meds[j]["name"] = medication_name)

\* [p.get('adherenceRate', 0) for p in patients], averaged
CurrentAdherence(ps) ==
    MeanOf([i \in 1..Len(ps) |-> Get(ps[i], "adherenceRate", 0)])

\* calculate_trends(patients, period, weeks=periods) or (.., months=periods);
\* first is the number of random draws the call has been preceded by
calculate_trends(ps, period, periods, today, stream, first) ==
    LET days_per_period == IF period = "weekly" THEN 7 ELSE 30
        point(i) ==
            [date |-> today - days_per_period * i,
             mpr |-> Round3(Clamp01(FracAdd(CurrentAdherence(ps),
                                            Variation(stream, first + i)))),
             patientCount |-> Len(ps)]
    IN  [k \in 1..periods |-> point(periods - k)]

\* the age cut points taken as inclusive ones
AgeBucketInclusive(age) ==
    IF age <= 30 THEN "<30"
    ELSE IF age <= 50 THEN "30-49"
    ELSE IF age <= 65 THEN "50-64"
    ELSE "65+"

AgeBucket(age) ==
    IF age < 30 THEN "<30"
    ELSE IF age < 50 THEN "30-49"
    ELSE IF age < 65 THEN "50-64"
    ELSE "65+"

\* a defaultdict(int) tally of the values of a list, as dict(...)
Tally(xs) ==
    [v \in {xs[i] : i \in 1..Len(xs)} |-> Count(xs, LAMBDA x : x = v)]

ConditionList(ps) ==
    Flatten([i \in 1..Len(ps) |-> Get(ps[i], "chronicConditions", <<>>)])

\* a record without an age counted as age 0
calculate_demographics_age0(ps) ==
    [ageGroups |-> Tally([i \in 1..Len(ps) |-> AgeBucket(Get(ps[i], "age", 0))]),
     genderDistribution |-> Tally([i \in 1..Len(ps) |-> Get(ps[i], "gender", "Unknown")]),
     conditionDistribution |-> Tally(ConditionList(ps))]

calculate_demographics(ps) ==
    [ageGroups |-> Tally([i \in 1..Len(ps) |-> AgeBucket(Get(ps[i], "age", 50))]),
     genderDistribution |-> Tally([i \in 1..Len(ps) |-> Get(ps[i], "gender", "Unknown")]),
     conditionDistribution |-> Tally(ConditionList(ps))]

calculate_condition_comparison(ps, medication_name) ==
    LET pairs == Flatten([i \in 1..Len(ps) |->
                    LET cs == Get(ps[i], "chronicConditions", <<>>)
                    IN  [j \in 1..Len(cs) |->
                            [condition |-> cs[j],
                             adherence |-> Get(ps[i], "adherenceRate", 0)]]])
        conditions == Dedup([k \in 1..Len(pairs) |-> pairs[k].condition])
        of(c) == SelectSeq(pairs, LAMBDA e : e.condition = c)
        comparison ==
            [k \in 1..Len(conditions) |->
                [condition |-> conditions[k],
                 adherenceRate |->
                     Round3(MeanOf([x \in 1..Len(of(conditions[k])) |->
                                       of(conditions[k])[x].adherence])),
                 patientCount |-> Len(of(conditions[k]))]]
    IN  StableSort(comparison, LAMBDA x, y : x.adherenceRate < y.adherenceRate)

\* the confidence interval kept at its first width
generate_forecast_flat(ps, days, today) ==
    LET current_adherence == CurrentAdherence(ps)
        predicted(i) == Clamp01(FracAdd(current_adherence, -i))
        lower(i) == LET f == FracAdd(predicted(i), -50)
                    IN  Frac(Max2(0, f[1]), f[2])
        upper(i) == LET f == FracAdd(predicted(i), 50)
                    IN  Frac(Min2(1000 * f[2], f[1]), f[2])
    IN  [k \in 1..days |->
            [date |-> today + (k - 1),
             predictedAdherence |-> Round3(predicted(k - 1)),
             confidenceLower |-> Round3(lower(k - 1)),
             confidenceUpper |-> Round3(upper(k - 1))]]

generate_forecast(ps, days, today) ==
    LET current_adherence == CurrentAdherence(ps)
        predicted(i) == Clamp01(FracAdd(current_adherence, -i))
        confidence_width(i) == 50 + i
        lower(i) == LET f == FracAdd(predicted(i), -confidence_width(i))
                    IN  Frac(Max2(0, f[1]), f[2])
        upper(i) == LET f == FracAdd(predicted(i), confidence_width(i))
                    IN  Frac(Min2(1000 * f[2], f[1]), f[2])
    IN  [k \in 1..days |->
            [date |-> today + (k - 1),
             predictedAdherence |-> Round3(predicted(k - 1)),
             confidenceLower |-> Round3(lower(k - 1)),
             confidenceUpper |-> Round3(upper(k - 1))]]

calculate_mpr_distribution(ps) ==
    LET mpr(p) == Get(p, "adherenceRate", 0)
    IN  [high |-> Count(ps, LAMBDA p : mpr(p) > 800),
         medium |-> Count(ps, LAMBDA p : mpr(p) <= 800 /\ mpr(p) >= 600),
         low |-> Count(ps, LAMBDA p : mpr(p) < 600)]

\* sorted(...) of medication names: the alphabet of the model, in order
NameOrder == <<"", "A", "B", "C", "D", "E", "F", "Unknown", "Z">>

list_medications(ps) ==
    LET es == MedEntries(ps)
        medications_set == {es[k].name : k \in 1..Len(es)}
        present == SelectSeq(NameOrder, LAMBDA n : n \in medications_set)
    IN  Ok(200, [medications |-> present])

get_medication_analytics(ps, medication_name, today, stream) ==
    LET med_patients == MedPatients(ps, medication_name)
    IN  IF med_patients = <<>> THEN Err(404, "Medication not found")
        ELSE Ok(200,
            [medicationName |-> medication_name,
             adherenceRate |-> Round3(CurrentAdherence(med_patients)),
             patientCount |-> Len(med_patients),
             weeklyTrends |->
                 calculate_trends(med_patients, "weekly", 12, today, stream, 0),
             monthlyTrends |->
                 calculate_trends(med_patients, "monthly", 6, today, stream, 12),
             demographics |-> calculate_demographics(med_patients),
             conditionComparison |->
                 calculate_condition_comparison(med_patients, medication_name),
             forecast |-> generate_forecast(med_patients, 30, today)])

get_medication_trends(ps, medication_name, period, today, stream) ==
    LET med_patients == MedPatients(ps, medication_name)
    IN  Ok(200, [trends |->
            IF period = "weekly"
            THEN calculate_trends(med_patients, "weekly", 12, today, stream, 0)
            ELSE calculate_trends(med_patients, "monthly", 12, today, stream, 0)])

get_medication_demographics(ps, medication_name) ==
    Ok(200, calculate_demographics(MedPatients(ps, medication_name)))

get_medication_forecast(ps, medication_name, today) ==
    Ok(200, [forecast |-> generate_forecast(MedPatients(ps, medication_name), 30, today)])

\* medication_names is query_params.get('ids', '').split(',')
compare_medications(ps, medication_names) ==
    LET named == SelectSeq(medication_names, LAMBDA n : n # "")
        found == SelectSeq(named, LAMBDA n : MedPatients(ps, n) # <<>>)
        comparison ==
            [k \in 1..Len(found) |->
                LET med_patients == MedPatients(ps, found[k])
                    avg_adherence == CurrentAdherence(med_patients)
                IN  [medicationName |-> found[k],
                     adherenceRate |-> Round3(avg_adherence),
                     patientCount |-> Len(med_patients),
                     nonAdherenceRate |->
                         Round3(Frac(1000 * avg_adherence[2] - avg_adherence[1],
                                     avg_adherence[2]))]]
    IN  Ok(200, [comparison |->
            StableSort(comparison,
                       LAMBDA x, y : x.nonAdherenceRate > y.nonAdherenceRate)])

-----------------------------------------------------------------------------
(* The record store: a table is the sequence of its items in scan order *)

\* table.get_item(Key={key: k}).get('Item')
GetItem(table, key, k) ==
    IF \E i \in 1..Len(table) : table[i][key] = k
    THEN table[CHOOSE i \in 1..Len(table) : table[i][key] = k]
    ELSE None

\* table.put_item(Item=item): replaces the item of the same key
PutItem(table, key, item) ==
    IF \E i \in 1..Len(table) : table[i][key] = item[key]
    THEN [i \in 1..Len(table) |->
            IF table[i][key] = item[key] THEN item ELSE table[i]]
    ELSE Append(table, item)

\* table.update_item(Key={key: k}, UpdateExpression='SET ...'): sets the
\* fields of the item of that key, and creates the item when there is none
UpdateItem(table, key, k, fields) ==
    IF \E i \in 1..Len(table) : table[i][key] = k
    THEN [i \in 1..Len(table) |->
            IF table[i][key] = k THEN fields @@ table[i] ELSE table[i]]
    ELSE Append(table, fields @@ (key :> k))

\* table.delete_item(Key={key: k})
DeleteItem(table, key, k) == SelectSeq(table, LAMBDA it : it[key] # k)

\* table.query(KeyConditionExpression='patientId = :pid')
QueryByPatient(table, pid) == SelectSeq(table, LAMBDA it : it["patientId"] = pid)

\* strftime('%Y%m%d%H%M%S'), strftime('%Y%m%d%H%M%S%f') and isoformat()
StampSeconds(t) == <<t.day, t.sec>>
StampMicros(t) == <<t.day, t.sec, t.usec>>
IsoFormat(t) == <<t.day, t.sec, t.usec>>

\* the order of two isoformat() strings
StampLess(a, b) ==
    \/ a[1] < b[1]
    \/ a[1] = b[1] /\ a[2] < b[2]
    \/ a[1] = b[1] /\ a[2] = b[2] /\ a[3] < b[3]

-----------------------------------------------------------------------------
(* patient_handler.py *)

get_patient_details(ps, patient_id) ==
    LET patient == GetItem(ps, "id", patient_id)
    IN  IF patient = None THEN Err(404, "Patient not found")
        ELSE Ok(200, patient)

\* the loop over refill_history: every refill gets refillGap and isAnomaly
EnhanceRefills(refill_history) ==
    [i \in 1..Len(refill_history) |->
        IF i > 1
        THEN LET gap_days == refill_history[i]["refillDate"]
                             - refill_history[i - 1]["nextExpectedDate"]
             IN  ("refillGap" :> gap_days)
                 @@ ("isAnomaly" :> (gap_days > 7 \/ gap_days < -7))
                 @@ refill_history[i]
        ELSE ("refillGap" :> 0) @@ ("isAnomaly" :> FALSE) @@ refill_history[i]]

\* prev_refill['nextExpectedDate'] or refill['refillDate'] raises KeyError
RefillKeyError(refill_history) ==
    \E i \in 2..Len(refill_history) :
        \/ ~Has(refill_history[i - 1], "nextExpectedDate")
        \/ ~Has(refill_history[i], "refillDate")

get_patient_medications(ps, patient_id) ==
    LET patient == GetItem(ps, "id", patient_id)
        medications == Get(patient, "medications", <<>>)
        history(med) == Get(med, "refillHistory", <<>>)
        enhanced(med) ==
            LET h == EnhanceRefills(history(med))
            IN  [medication |->
                    IF Has(med, "refillHistory")
                    THEN ("refillHistory" :> h) @@ med ELSE med,
                 refillHistory |-> h,
                 lastRefill |-> IF h # <<>> THEN h[Len(h)] ELSE None,
                 nextExpected |->
                    IF h # <<>>
                    THEN (IF Has(h[Len(h)], "nextExpectedDate")
                          THEN [value |-> h[Len(h)]["nextExpectedDate"]] ELSE None)
                    ELSE None]
    IN  IF patient = None THEN Err(404, "Patient not found")
        ELSE IF \E j \in 1..Len(medications) : RefillKeyError(history(medications[j]))
        THEN Raise("KeyError")
        ELSE Ok(200, [medications |->
                [j \in 1..Len(medications) |-> enhanced(medications[j])]])

Abs(x) == IF x < 0 THEN -x ELSE x

generate_shap_explanations(patient) ==
    LET avg_gap == Get(patient, "avgRefillGap", 0)
        med_count == Len(Get(patient, "medications", <<>>))
        mpr == Get(patient, "adherenceRate", 0)
        age == Get(patient, "age", 50)
        conditions == Len(Get(patient, "chronicConditions", <<>>))
        entry(f, v, c) == [feature |-> f, value |-> v, contribution |-> c]
        shap_values ==
            (IF avg_gap > 5 THEN <<entry("refill_gap", avg_gap, 320)>> ELSE <<>>)
            \o (IF med_count > 3
                THEN <<entry("medication_count", med_count, 120)>> ELSE <<>>)
            \o (IF mpr > 800 THEN <<entry("mpr_trend", mpr, -150)>> ELSE <<>>)
            \o (IF age > 65 THEN <<entry("age", age, 80)>> ELSE <<>>)
            \o (IF conditions > 2
                THEN <<entry("chronic_conditions", conditions, 100)>> ELSE <<>>)
    IN  Slice(StableSort(shap_values,
                         LAMBDA x, y : Abs(x.contribution) > Abs(y.contribution)),
              0, 5)

\* the High / Medium / Low cut points of get_patient_risk
RiskCategory(risk_score) ==
    IF risk_score >= 700 THEN "High"
    ELSE IF risk_score >= 400 THEN "Medium"
    ELSE "Low"

get_patient_risk(ps, patient_id, t) ==
    LET patient == GetItem(ps, "id", patient_id)
        risk_score == Get(patient, "riskScore", 0)
    IN  IF patient = None THEN Err(404, "Patient not found")
        ELSE Ok(200, [id |-> <<"pred", patient_id, t.day>>,
                      patientId |-> patient_id,
                      riskScore |-> risk_score,
                      riskCategory |-> RiskCategory(risk_score),
                      predictionDate |-> IsoFormat(t),
                      shapValues |-> generate_shap_explanations(patient),
                      confidence |-> 850,
                      modelVersion |-> "v1.0.0"])

get_patient_interventions(table, patient_id) ==
    LET key(x) == <<Get(x, "priority", 999), -Get(x, "effectiveness", 0)>>
    IN  Ok(200, [interventions |->
            StableSort(QueryByPatient(table, patient_id),
                LAMBDA x, y : \/ key(x)[1] < key(y)[1]
                              \/ key(x)[1] = key(y)[1] /\ key(x)[2] < key(y)[2])])

\* ScanIndexForward=False on the patientId-createdAt index: newest first
get_patient_notes(table, patient_id) ==
    Ok(200, [notes |->
        StableSort(QueryByPatient(table, patient_id),
                   LAMBDA x, y : StampLess(y["createdAt"], x["createdAt"]))])

\* the note add_care_note builds
CareNote(patient_id, note_data, t) ==
    [id |-> <<"note", StampMicros(t)>>,
     patientId |-> patient_id,
     author |-> Get(note_data, "author", "Unknown"),
     authorRole |-> Get(note_data, "authorRole", "clinician"),
     content |-> Get(note_data, "content", ""),
     type |-> Get(note_data, "type", "clinical_note"),
     createdAt |-> IsoFormat(t)]

\* int(x) of a query-string value
MaxInt == 60

IsIntText(x) == \E n \in -MaxInt..MaxInt : ToString(n) = x

IntOf(x) == CHOOSE n \in -MaxInt..MaxInt : ToString(n) = x

\* s[a:b] with Python's treatment of negative and out-of-range indexes
PySlice(s, a, b) ==
    LET n == Len(s)
        norm(i) == IF i < 0 THEN Max2(0, i + n) ELSE Min2(i, n)
    IN  SubSeq(s, norm(a) + 1, norm(b))

\* the risk and condition filters of list_patients
FilterPatients(ps, query_params) ==
    LET risk_filter == Get(query_params, "risk", "")
        score(p) == Get(p, "riskScore", 0)
        by_risk ==
            IF risk_filter = "high"
            THEN SelectSeq(ps, LAMBDA p : score(p) >= 700)
            ELSE IF risk_filter = "medium"
            THEN SelectSeq(ps, LAMBDA p : 400 <= score(p) /\ score(p) < 700)
            ELSE IF risk_filter = "low"
            THEN SelectSeq(ps, LAMBDA p : score(p) < 400)
            ELSE ps
        condition_filter == Get(query_params, "condition", "")
    IN  IF condition_filter # ""
        THEN SelectSeq(by_risk, LAMBDA p :
                LET cs == Get(p, "chronicConditions", <<>>)
                IN  \E j \in 1..Len(cs) : cs[j] = condition_filter)
        ELSE by_risk

\* the page cut at the index limit instead of offset + limit
list_patients_limit_as_end(ps, query_params) ==
    LET sorted == StableSort(FilterPatients(ps, query_params),
                      LAMBDA x, y : Get(x, "riskScore", 0) > Get(y, "riskScore", 0))
        limit == IntOf(Get(query_params, "limit", "50"))
        offset == IntOf(Get(query_params, "offset", "0"))
    IN  Ok(200, [patients |-> PySlice(sorted, offset, limit),
                 total |-> Len(sorted),
                 limit |-> limit,
                 offset |-> offset])

list_patients(ps, query_params) ==
    LET sorted == StableSort(FilterPatients(ps, query_params),
                      LAMBDA x, y : Get(x, "riskScore", 0) > Get(y, "riskScore", 0))
        limit_text == Get(query_params, "limit", "50")
        offset_text == Get(query_params, "offset", "0")
        limit == IntOf(limit_text)
        offset == IntOf(offset_text)
    IN  IF ~IsIntText(limit_text) \/ ~IsIntText(offset_text)
        THEN Raise("ValueError")
        ELSE Ok(200, [patients |-> PySlice(sorted, offset, offset + limit),
                      total |-> Len(sorted),
                      limit |-> limit,
                      offset |-> offset])

generate_intervention_recommendations(patient) ==
    LET risk_score == Get(patient, "riskScore", 0)
        rec(t, p, e) == [type |-> t, priority |-> p, effectiveness |-> e]
    IN  IF risk_score >= 700
        THEN <<rec("follow_up_call", 1, 850), rec("refill_reminder", 2, 750),
               rec("teleconsultation", 3, 700)>>
        ELSE IF risk_score >= 400
        THEN <<rec("refill_reminder", 1, 800), rec("follow_up_call", 2, 650)>>
        ELSE <<>>

-----------------------------------------------------------------------------
(* genai_handler.py *)

\* a parser that reads every body it cannot parse as {}
JsonLoadsLenient(body) ==
    [ok |-> TRUE, value |-> IF body.kind = "json" THEN body.value ELSE <<>>]

\* json.loads(event.get('body', '{}')) on the body of an event:
\* no 'body' key, a null body, text that is not JSON, or a JSON object
JsonLoads(body) ==
    CASE body.kind = "absent" -> [ok |-> TRUE, value |-> <<>>]
      [] body.kind = "null" ->
            [ok |-> FALSE, error |-> "the JSON object must be str, bytes or bytearray, not NoneType"]
      [] body.kind = "malformed" ->
            [ok |-> FALSE, error |-> "Expecting value: line 1 column 1 (char 0)"]
      [] OTHER -> [ok |-> TRUE, value |-> body.value]

\* a failure of the model call answered with no text at all
invoke_bedrock_silent(prompt, outcome) ==
    CASE outcome = "text" -> <<"reply", prompt.message>>
      [] outcome = "empty" ->
            <<"I apologize, but I couldn't generate a response. Please try again.">>
      [] OTHER -> <<>>

\* bedrock_runtime.invoke_model inside invoke_bedrock's try block; outcome is
\* what the service does: "text", "empty" (no content) or "error" (it raises)
invoke_bedrock(prompt, outcome) ==
    CASE outcome = "text" -> <<"reply", prompt.message>>
      [] outcome = "empty" ->
            <<"I apologize, but I couldn't generate a response. Please try again.">>
      [] OTHER -> <<"I encountered an error", "Please try again.">>

\* history[-5:]
LastFive(history) == SubSeq(history, Max2(1, Len(history) - 4), Len(history))

\* a prompt built from the whole history
build_prompt_whole(message, history, context) ==
    [message |-> message,
     context |-> [k \in DOMAIN context \cap {"patientId", "medicationId", "pageContext"}
                    |-> context[k]],
     history |-> [i \in 1..Len(history) |->
                    [role |-> Get(history[i], "role", "user"),
                     content |-> Get(history[i], "content", <<>>)]]]

build_prompt(message, history, context) ==
    [message |-> message,
     context |-> [k \in DOMAIN context \cap {"patientId", "medicationId", "pageContext"}
                    |-> context[k]],
     history |-> [i \in 1..Len(LastFive(history)) |->
                    [role |-> Get(LastFive(history)[i], "role", "user"),
                     content |-> Get(LastFive(history)[i], "content", <<>>)]]]

\* the conversation store behind get_conversation_history and save_message
get_conversation_history(table, conversation_id) ==
    Get(GetItem(table, "conversationId", conversation_id), "messages", <<>>)

save_message(table, conversation_id, role, content) ==
    UpdateItem(table, "conversationId", conversation_id,
        [messages |-> Append(get_conversation_history(table, conversation_id),
                             [role |-> role, content |-> content])])

extract_citations(response, context) ==
    IF Has(context, "patientId") THEN <<"Patient Record">> ELSE <<>>

\* each mutating function returns its response with the stores it leaves
chat(request, table, calls, outcome) ==
    LET message == Get(request, "message", "")
        conversation_id == Get(request, "conversationId", "")
        context == Get(request, "context", <<>>)
        history == IF conversation_id # ""
                   THEN get_conversation_history(table, conversation_id) ELSE <<>>
        prompt == build_prompt(message, history, context)
        response == invoke_bedrock(prompt, outcome)
        saved == save_message(save_message(table, conversation_id, "user", <<message>>),
                              conversation_id, "assistant", response)
    IN  [resp |-> Ok(200, [message |-> response,
                           citations |-> extract_citations(response, context),
                           confidence |-> 850,
                           conversationId |-> conversation_id]),
         conversations |-> IF conversation_id # "" THEN saved ELSE table,
         extCalls |-> Append(calls, [service |-> "bedrock", prompt |-> prompt])]

ExplainPrompt(patient) ==
    [message |-> "explain",
     age |-> Get(patient, "age", -1),
     gender |-> Get(patient, "gender", "Unknown"),
     chronicConditions |-> Get(patient, "chronicConditions", <<>>),
     adherenceRate |-> Get(patient, "adherenceRate", 0),
     riskScore |-> Get(patient, "riskScore", 0),
     avgRefillGap |-> Get(patient, "avgRefillGap", 0),
     medications |-> Len(Get(patient, "medications", <<>>))]

\* the model invoked before the patient is looked up
explain_prediction_eager(request, ps, calls, outcome) ==
    LET patient_id == Get(request, "patientId", "")
        patient == GetItem(ps, "id", patient_id)
        called == Append(calls, [service |-> "bedrock", prompt |-> ExplainPrompt(patient)])
    IN  IF patient_id = ""
        THEN [resp |-> Err(400, "Patient ID required"), extCalls |-> calls]
        ELSE IF patient = None
        THEN [resp |-> Err(404, "Patient not found"), extCalls |-> called]
        ELSE [resp |-> Ok(200, [explanation |-> invoke_bedrock(ExplainPrompt(patient), outcome),
                                riskFactors |-> <<>>,
                                citations |-> <<>>]),
              extCalls |-> called]

explain_prediction(request, ps, calls, outcome) ==
    LET patient_id == Get(request, "patientId", "")
        patient == GetItem(ps, "id", patient_id)
        prompt == ExplainPrompt(patient)
        risk_factors ==
            (IF Get(patient, "avgRefillGap", 0) > 5 THEN <<"Refill gap">> ELSE <<>>)
            \o (IF Len(Get(patient, "medications", <<>>)) > 3
                THEN <<"Multiple medications">> ELSE <<>>)
            \o (IF Get(patient, "adherenceRate", 0) < 700
                THEN <<"Low adherence rate">> ELSE <<>>)
    IN  IF patient_id = ""
        THEN [resp |-> Err(400, "Patient ID required"), extCalls |-> calls]
        ELSE IF patient = None
        THEN [resp |-> Err(404, "Patient not found"), extCalls |-> calls]
        ELSE [resp |-> Ok(200, [explanation |-> invoke_bedrock(prompt, outcome),
                                riskFactors |-> risk_factors,
                                citations |-> <<[source |-> "Patient Record", confidence |-> 1000],
                                                [source |-> "Risk Prediction Model", confidence |-> 850]>>]),
              extCalls |-> Append(calls, [service |-> "bedrock", prompt |-> prompt])]

ScriptPrompt(patient, intervention_type) ==
    [message |-> "script",
     interventionType |-> intervention_type,
     name |-> Get(patient, "name", "Patient"),
     age |-> Get(patient, "age", -1),
     medications |-> LET ms == Get(patient, "medications", <<>>)
                     IN  [j \in 1..Len(ms) |-> Get(ms[j], "name", "")],
     chronicConditions |-> Get(patient, "chronicConditions", <<>>),
     avgRefillGap |-> Get(patient, "avgRefillGap", 0)]

generate_script(request, ps, calls, outcome, t) ==
    LET patient_id == Get(request, "patientId", "")
        intervention_type == Get(request, "interventionType", "follow_up_call")
        patient == GetItem(ps, "id", patient_id)
        prompt == ScriptPrompt(patient, intervention_type)
    IN  IF patient_id = ""
        THEN [resp |-> Err(400, "Patient ID required"), extCalls |-> calls]
        ELSE IF patient = None
        THEN [resp |-> Err(404, "Patient not found"), extCalls |-> calls]
        ELSE [resp |-> Ok(200, [script |-> invoke_bedrock(prompt, outcome),
                                patientName |-> Get(patient, "name", "Patient"),
                                interventionType |-> intervention_type,
                                generatedAt |-> IsoFormat(t)]),
              extCalls |-> Append(calls, [service |-> "bedrock", prompt |-> prompt])]

get_context(table, conversation_id) ==
    IF conversation_id = "" THEN Err(400, "Conversation ID required")
    ELSE Ok(200, [conversationId |-> conversation_id,
                  messages |-> get_conversation_history(table, conversation_id)])

reset_context(request, table) ==
    LET conversation_id == Get(request, "conversationId", "")
    IN  IF conversation_id = ""
        THEN [resp |-> Err(400, "Conversation ID required"), conversations |-> table]
        ELSE [resp |-> Ok(200, [message |-> "Context reset successfully"]),
              conversations |-> DeleteItem(table, "conversationId", conversation_id)]

-----------------------------------------------------------------------------
(* prediction_workflow_handler.py *)

\* start_sagemaker_batch_job: submitted is FALSE when the submission raises
start_sagemaker_batch_job(job_id, config, submitted) ==
    IF submitted THEN None ELSE Raise("batch submission failed")

\* a batch service that reports the job as still queued
check_sagemaker_job_status_queued(job_id) == [status |-> "pending", progress |-> 0]

check_sagemaker_job_status(job_id) == [status |-> "running", progress |-> 50]

\* an except clause that re-raises without marking the job as failed
start_batch_prediction_unmarked(job_config, table, job_id, submitted, t) ==
    LET job == [jobId |-> job_id,
                status |-> "pending",
                cohort |-> Get(job_config, "cohort", "all"),
                dateRangeStart |-> Get(job_config, "dateRangeStart", "null"),
                dateRangeEnd |-> Get(job_config, "dateRangeEnd", "null"),
                progress |-> 0,
                createdAt |-> IsoFormat(t)]
        put == PutItem(table, "jobId", job)
        started == start_sagemaker_batch_job(job_id, job_config, submitted)
    IN  IF ~IsRaise(started)
        THEN [resp |-> Ok(202, job),
              jobs |-> UpdateItem(put, "jobId", job_id,
                          [status |-> "running", startedAt |-> IsoFormat(t)])]
        ELSE [resp |-> started, jobs |-> put]

\* job_id is "job-" + uuid4().hex[:12]
start_batch_prediction(job_config, table, job_id, submitted, t) ==
    LET job == [jobId |-> job_id,
                status |-> "pending",
                cohort |-> Get(job_config, "cohort", "all"),
                dateRangeStart |-> Get(job_config, "dateRangeStart", "null"),
                dateRangeEnd |-> Get(job_config, "dateRangeEnd", "null"),
                progress |-> 0,
                createdAt |-> IsoFormat(t)]
        put == PutItem(table, "jobId", job)
        started == start_sagemaker_batch_job(job_id, job_config, submitted)
    IN  IF ~IsRaise(started)
        THEN [resp |-> Ok(202, job),
              jobs |-> UpdateItem(put, "jobId", job_id,
                          [status |-> "running", startedAt |-> IsoFormat(t)])]
        ELSE [resp |-> started,
              jobs |-> UpdateItem(put, "jobId", job_id,
                          [status |-> "failed", errorMessage |-> started.raised])]

get_job_status(table, job_id) ==
    LET job == GetItem(table, "jobId", job_id)
        sm_status == check_sagemaker_job_status(job_id)
        changed == /\ Get(job, "status", "null") = "running"
                   /\ sm_status.status # Get(job, "status", "null")
        fields == [status |-> sm_status.status, progress |-> sm_status.progress]
    IN  IF job = None
        THEN [resp |-> Err(404, "Job not found"), jobs |-> table]
        ELSE IF changed
        THEN [resp |-> Ok(200, fields @@ job),
              jobs |-> UpdateItem(table, "jobId", job_id, fields)]
        ELSE [resp |-> Ok(200, job), jobs |-> table]

\* sort(key=createdAt, reverse=True)
NewestFirst(table) ==
    StableSort(table, LAMBDA x, y : StampLess(Get(y, "createdAt", <<0, 0, 0>>),
                                              Get(x, "createdAt", <<0, 0, 0>>)))

list_jobs(table) == Ok(200, [jobs |-> NewestFirst(table)])

calculate_next_run(frequency, t) ==
    IF frequency = "daily" THEN [t EXCEPT !.day = @ + 1]
    ELSE IF frequency = "weekly" THEN [t EXCEPT !.day = @ + 7]
    ELSE IF frequency = "monthly" THEN [t EXCEPT !.day = @ + 30]
    ELSE [t EXCEPT !.day = @ + 1]

RuleName(schedule_id) == <<"mlops-prediction", schedule_id>>

ScheduleExpression(frequency) ==
    IF frequency = "daily" THEN "cron(0 0 * * ? *)"
    ELSE IF frequency = "weekly" THEN "cron(0 0 ? * MON *)"
    ELSE IF frequency = "monthly" THEN "cron(0 0 1 * ? *)"
    ELSE "cron(0 0 * * ? *)"

\* events.put_rule: works is FALSE when the service raises
create_eventbridge_rule(rs, schedule_id, frequency, works) ==
    IF works
    THEN [raised |-> FALSE,
          rules |-> (rs \ {r \in rs : r.name = RuleName(schedule_id)})
                    \cup {[name |-> RuleName(schedule_id),
                           expression |-> ScheduleExpression(frequency)]}]
    ELSE [raised |-> TRUE, rules |-> rs]

\* events.remove_targets (errors ignored), then events.delete_rule
delete_eventbridge_rule(rs, schedule_id, works) ==
    IF works
    THEN [raised |-> FALSE, rules |-> {r \in rs : r.name # RuleName(schedule_id)}]
    ELSE [raised |-> TRUE, rules |-> rs]

\* a create_schedule that lets the failure of the scheduling service out
create_schedule_unguarded(schedule_config, table, rs, schedule_id, works, t) ==
    LET frequency == Get(schedule_config, "frequency", "daily")
        schedule == [scheduleId |-> schedule_id,
                     name |-> Get(schedule_config, "name", "Schedule"),
                     frequency |-> frequency,
                     cohort |-> Get(schedule_config, "cohort", "all"),
                     enabled |-> Get(schedule_config, "enabled", TRUE),
                     nextRun |-> IsoFormat(calculate_next_run(frequency, t)),
                     createdBy |-> Get(schedule_config, "createdBy", "system"),
                     createdAt |-> IsoFormat(t)]
    IN  [resp |-> IF works THEN Ok(201, schedule) ELSE Raise("put_rule failed"),
         schedules |-> PutItem(table, "scheduleId", schedule),
         rules |-> create_eventbridge_rule(rs, schedule_id, frequency, works).rules,
         extCalls |-> <<[service |-> "events", op |-> "put_rule",
                         name |-> RuleName(schedule_id)]>>]

\* schedule_id is "schedule-" + uuid4().hex[:12]
create_schedule(schedule_config, table, rs, schedule_id, works, t) ==
    LET frequency == Get(schedule_config, "frequency", "daily")
        schedule == [scheduleId |-> schedule_id,
                     name |-> Get(schedule_config, "name", "Schedule"),
                     frequency |-> frequency,
                     cohort |-> Get(schedule_config, "cohort", "all"),
                     enabled |-> Get(schedule_config, "enabled", TRUE),
                     nextRun |-> IsoFormat(calculate_next_run(frequency, t)),
                     createdBy |-> Get(schedule_config, "createdBy", "system"),
                     createdAt |-> IsoFormat(t)]
    IN  [resp |-> Ok(201, schedule),
         schedules |-> PutItem(table, "scheduleId", schedule),
         rules |-> create_eventbridge_rule(rs, schedule_id, frequency, works).rules,
         extCalls |-> <<[service |-> "events", op |-> "put_rule",
                         name |-> RuleName(schedule_id)]>>]

get_schedule(table, schedule_id) ==
    LET schedule == GetItem(table, "scheduleId", schedule_id)
    IN  IF schedule = None THEN Err(404, "Schedule not found")
        ELSE Ok(200, schedule)

list_schedules(table) == Ok(200, [schedules |-> NewestFirst(table)])

\* the SET clauses update_schedule builds from the keys of updates
ScheduleUpdates(updates, t) ==
    [k \in (DOMAIN updates \cap {"name", "frequency", "enabled"})
           \cup (IF Has(updates, "frequency") THEN {"nextRun"} ELSE {}) |->
        IF k = "nextRun"
        THEN IsoFormat(calculate_next_run(updates["frequency"], t))
        ELSE updates[k]]

\* schedule_id is "" when the request has no path parameter id (None);
\* boto3 rejects a None key, and rejects ExpressionAttributeNames=None,
\* which update_schedule passes when updates has no 'name'
update_schedule(schedule_id, updates, table, t) ==
    LET fields == ScheduleUpdates(updates, t)
    IN  IF DOMAIN fields = {}
        THEN [resp |-> Err(400, "No valid updates provided"), schedules |-> table]
        ELSE IF schedule_id = "" \/ ~Has(updates, "name")
        THEN [resp |-> Raise("Parameter validation failed"), schedules |-> table]
        ELSE [resp |-> Ok(200, GetItem(UpdateItem(table, "scheduleId", schedule_id, fields),
                                       "scheduleId", schedule_id)),
              schedules |-> UpdateItem(table, "scheduleId", schedule_id, fields)]

\* the 204 response: one header, no body
NoContent == [statusCode |-> 204,
              headers |-> ("Access-Control-Allow-Origin" :> "*")]

\* a delete that answers 404 when the store holds no schedule of that id
delete_schedule_strict(schedule_id, table, rs, works) ==
    LET after == delete_eventbridge_rule(rs, schedule_id, works).rules
        called == <<[service |-> "events", op |-> "delete_rule",
                     name |-> RuleName(schedule_id)]>>
    IN  IF schedule_id = ""
        THEN [resp |-> Raise("Parameter validation failed"),
              schedules |-> table, rules |-> after, extCalls |-> called]
        ELSE IF GetItem(table, "scheduleId", schedule_id) = None
        THEN [resp |-> Err(404, "Schedule not found"),
              schedules |-> table, rules |-> after, extCalls |-> called]
        ELSE [resp |-> NoContent,
              schedules |-> DeleteItem(table, "scheduleId", schedule_id),
              rules |-> after, extCalls |-> called]

delete_schedule(schedule_id, table, rs, works) ==
    LET after == delete_eventbridge_rule(rs, schedule_id, works).rules
        called == <<[service |-> "events", op |-> "delete_rule",
                     name |-> RuleName(schedule_id)]>>
    IN  IF schedule_id = ""
        THEN [resp |-> Raise("Parameter validation failed"),
              schedules |-> table, rules |-> after, extCalls |-> called]
        ELSE [resp |-> NoContent,
              schedules |-> DeleteItem(table, "scheduleId", schedule_id),
              rules |-> after, extCalls |-> called]

-----------------------------------------------------------------------------
(* training_handler.py and inference_handler.py *)

success_response(data) ==
    [statusCode |-> 200, headers |-> JsonHeaders, body |-> JsonDumps(data)]

error_response(code, message) ==
    [statusCode |-> code, headers |-> JsonHeaders,
     body |-> JsonDumps([error |-> message])]

\* re.sub(r'[^a-zA-Z0-9-]', '-', model_name)[:50] on the names of the model
SanitizeName(model_name) ==
    IF model_name = "my model!" THEN "my-model-" ELSE model_name

training_lambda_handler(event, t) ==
    LET parsed == JsonLoads(event.body)
        body == parsed.value
        dataset_uri == Get(body, "datasetUri", "")
        model_name == Get(body, "modelName", "medication-adherence-model")
    IN  IF ~parsed.ok THEN error_response(500, parsed.error)
        ELSE IF dataset_uri = "" THEN error_response(400, "datasetUri is required")
        ELSE success_response(
                [trainingJobId |-> <<SanitizeName(model_name), StampSeconds(t)>>,
                 status |-> "InProgress",
                 message |-> "Training job started successfully"])

\* inference_id is str(uuid.uuid4())
inference_lambda_handler(event, inference_id, t) ==
    LET parsed == JsonLoads(event.body)
        body == parsed.value
        input_data_uri == Get(body, "inputDataUri", "")
    IN  IF ~parsed.ok THEN error_response(500, parsed.error)
        ELSE IF input_data_uri = "" THEN error_response(400, "inputDataUri is required")
        ELSE success_response(
                [inferenceJobId |-> inference_id,
                 status |-> "completed",
                 predictions |-> <<>>,
                 driftScore |-> 50,
                 resultsUri |-> <<"inference-results", inference_id>>,
                 timestamp |-> IsoFormat(t)])

-----------------------------------------------------------------------------
(* dashboard_handler.py: alerts *)

SeverityOrder(severity) ==
    CASE severity = "critical" -> 0
      [] severity = "warning" -> 1
      [] severity = "info" -> 2
      [] OTHER -> 3

\* scan(FilterExpression='attribute_not_exists(acknowledgedAt)'), sorted
get_active_alerts(table) ==
    LET active == SelectSeq(table, LAMBDA a : ~Has(a, "acknowledgedAt"))
        key(x) == <<SeverityOrder(Get(x, "severity", "info")),
                    Get(x, "createdAt", <<0, 0, 0>>)>>
    IN  Ok(200, [alerts |->
            StableSort(active, LAMBDA x, y :
                \/ key(x)[1] < key(y)[1]
                \/ key(x)[1] = key(y)[1] /\ StampLess(key(x)[2], key(y)[2]))])

\* the alert create_alert builds; its id is "alert-" + the time in seconds
NewAlert(alert_type, severity, patient_id, message, t) ==
    [id |-> <<"alert", StampSeconds(t)>>,
     type |-> alert_type,
     severity |-> severity,
     patientId |-> patient_id,
     message |-> message,
     createdAt |-> IsoFormat(t)]

create_alert(table, alert_type, severity, patient_id, message, t) ==
    PutItem(table, "id", NewAlert(alert_type, severity, patient_id, message, t))

\* an acknowledgment that leaves an acknowledged alert as it is
acknowledge_alert_once(table, alert_id, user_id, t) ==
    IF \E i \in 1..Len(table) :
            table[i]["id"] = alert_id /\ Has(table[i], "acknowledgedAt")
    THEN table
    ELSE UpdateItem(table, "id", alert_id,
                    [acknowledgedAt |-> IsoFormat(t), acknowledgedBy |-> user_id])

acknowledge_alert(table, alert_id, user_id, t) ==
    UpdateItem(table, "id", alert_id,
               [acknowledgedAt |-> IsoFormat(t), acknowledgedBy |-> user_id])

-----------------------------------------------------------------------------
(* The lambda_handler of each module.  An event is                         *)
(* [httpMethod, path, id, query, body]: id is pathParameters.get('id'),    *)
(* "" when there is none; query is queryStringParameters or {}.            *)

dashboard_lambda_handler(event, ps, al, t, stream) ==
    IF event.httpMethod = "GET"
    THEN IF Contains(event.path, <<"metrics">>)
         THEN get_dashboard_metrics(ps, t.day, stream)
         ELSE IF Contains(event.path, <<"alerts">>)
         THEN get_active_alerts(al)
         ELSE IF Contains(event.path, <<"trends">>)
         THEN get_adherence_trends(ps, Get(event.query, "range", "6months"),
                                   t.day, stream)
         ELSE IF Contains(event.path, <<"top-medications">>)
         THEN get_top_medications(ps)
         ELSE Err(404, "Endpoint not found")
    ELSE Err(405, "Method not allowed")

\* query_params.get('ids', '').split(',') on the id lists of the model
SplitIds(text) ==
    CASE text = "" -> <<"">>
      [] text = "A" -> <<"A">>
      [] text = "A,B" -> <<"A", "B">>
      [] text = "B,,Z,A" -> <<"B", "", "Z", "A">>
      [] OTHER -> <<text>>

medication_lambda_handler(event, ps, t, stream) ==
    LET medication_id == event.id
    IN  IF event.httpMethod = "GET"
        THEN IF medication_id # ""
             THEN IF Contains(event.path, <<"analytics">>)
                  THEN get_medication_analytics(ps, medication_id, t.day, stream)
                  ELSE IF Contains(event.path, <<"trends">>)
                  THEN get_medication_trends(ps, medication_id,
                           Get(event.query, "period", "monthly"), t.day, stream)
                  ELSE IF Contains(event.path, <<"demographics">>)
                  THEN get_medication_demographics(ps, medication_id)
                  ELSE IF Contains(event.path, <<"forecast">>)
                  THEN get_medication_forecast(ps, medication_id, t.day)
                  \* no else branch: the function falls off its end
                  ELSE NoneResponse
             ELSE IF Contains(event.path, <<"compare">>)
             THEN compare_medications(ps, SplitIds(Get(event.query, "ids", "")))
             ELSE list_medications(ps)
        ELSE Err(405, "Method not allowed")

patient_lambda_handler(event, ps, iv, nt, t) ==
    LET patient_id == event.id
        parsed == JsonLoads(event.body)
        note == CareNote(patient_id, parsed.value, t)
    IN  IF event.httpMethod = "GET"
        THEN [resp |->
                Catch500(
                  IF patient_id # ""
                  THEN IF Contains(event.path, <<"medications">>)
                       THEN get_patient_medications(ps, patient_id)
                       ELSE IF Contains(event.path, <<"risk">>)
                       THEN get_patient_risk(ps, patient_id, t)
                       ELSE IF Contains(event.path, <<"interventions">>)
                       THEN get_patient_interventions(iv, patient_id)
                       ELSE IF Contains(event.path, <<"notes">>)
                       THEN get_patient_notes(nt, patient_id)
                       ELSE get_patient_details(ps, patient_id)
                  ELSE list_patients(ps, event.query)),
              notes |-> nt]
        ELSE IF event.httpMethod = "POST"
        THEN IF patient_id # "" /\ Contains(event.path, <<"notes">>)
             THEN IF ~parsed.ok
                  THEN [resp |-> Err(500, parsed.error), notes |-> nt]
                  \* add_care_note
                  ELSE [resp |-> Ok(201, note), notes |-> PutItem(nt, "id", note)]
             ELSE [resp |-> Err(400, "Invalid request"), notes |-> nt]
        ELSE [resp |-> Err(405, "Method not allowed"), notes |-> nt]

genai_lambda_handler(event, ps, cv, outcome, t) ==
    LET parsed == JsonLoads(event.body)
        body == parsed.value
        same == [conversations |-> cv, extCalls |-> <<>>]
        not_found == [resp |-> Err(404, "Endpoint not found")] @@ same
    IN  IF event.httpMethod = "POST"
        THEN IF ~parsed.ok
             THEN [resp |-> Err(500, parsed.error)] @@ same
             ELSE IF Contains(event.path, <<"chat">>)
             THEN chat(body, cv, <<>>, outcome)
             ELSE IF Contains(event.path, <<"context", "reset">>)
             THEN reset_context(body, cv) @@ same
             ELSE IF Contains(event.path, <<"explain">>)
             THEN explain_prediction(body, ps, <<>>, outcome) @@ same
             ELSE IF Contains(event.path, <<"script">>)
             THEN generate_script(body, ps, <<>>, outcome, t) @@ same
             ELSE not_found
        ELSE IF event.httpMethod = "GET"
        THEN IF Contains(event.path, <<"context">>)
             THEN [resp |-> get_context(cv, Get(event.query, "conversationId", ""))] @@ same
             ELSE not_found
        ELSE not_found

\* fresh_id is the uuid4 the call draws; submitted and works are what the
\* batch service and the scheduling service do
prediction_lambda_handler(event, jb, sc, rs, fresh_id, submitted, works, t) ==
    LET parsed == JsonLoads(event.body)
        body == parsed.value
        same == [jobs |-> jb, schedules |-> sc, rules |-> rs, extCalls |-> <<>>]
        not_found == [resp |-> Err(404, "Endpoint not found")] @@ same
        parse_error == [resp |-> Err(500, parsed.error)] @@ same
        caught(r) == [r EXCEPT !.resp = Catch500(@)] @@ same
    IN  IF event.httpMethod = "POST"
        THEN IF Contains(event.path, <<"batch">>)
             THEN IF ~parsed.ok THEN parse_error
                  ELSE caught(start_batch_prediction(body, jb, fresh_id, submitted, t))
             ELSE IF Contains(event.path, <<"schedules">>) /\ event.id = ""
             THEN IF ~parsed.ok THEN parse_error
                  ELSE caught(create_schedule(body, sc, rs, fresh_id, works, t))
             ELSE not_found
        ELSE IF event.httpMethod = "GET"
        THEN IF Contains(event.path, <<"jobs">>)
             THEN IF event.id # ""
                  THEN caught(get_job_status(jb, event.id))
                  ELSE [resp |-> list_jobs(jb)] @@ same
             ELSE IF Contains(event.path, <<"schedules">>)
             THEN IF event.id # ""
                  THEN [resp |-> get_schedule(sc, event.id)] @@ same
                  ELSE [resp |-> list_schedules(sc)] @@ same
             ELSE not_found
        ELSE IF event.httpMethod = "PUT"
        THEN IF Contains(event.path, <<"schedules">>)
             THEN IF ~parsed.ok THEN parse_error
                  ELSE caught(update_schedule(event.id, body, sc, t))
             ELSE not_found
        ELSE IF event.httpMethod = "DELETE"
        THEN IF Contains(event.path, <<"schedules">>)
             THEN caught(delete_schedule(event.id, sc, rs, works))
             ELSE not_found
        ELSE not_found

-----------------------------------------------------------------------------
(* The stores the model starts from *)

PatientId(i) == "p" \o ToString(i)

MedA == [name |-> "A",
         refillHistory |-> <<[refillDate |-> 700, nextExpectedDate |-> 730],
                             [refillDate |-> 740, nextExpectedDate |-> 770]>>]

Med(n) == [name |-> n]

\* patient records as the ingestion may have written them, without the id
Profiles ==
    <<[age |-> 25, gender |-> "F", chronicConditions |-> <<"diabetes">>,
       medications |-> <<MedA>>, adherence_rate |-> 500, adherenceRate |-> 500,
       risk_score |-> 750, riskScore |-> 750, avgRefillGap |-> 7],
      [age |-> 45, gender |-> "M", chronicConditions |-> <<>>,
       medications |-> <<Med("A")>>, adherence_rate |-> 900, adherenceRate |-> 900,
       risk_score |-> 400, riskScore |-> 400, avgRefillGap |-> 0],
      [age |-> 70, gender |-> "F",
       chronicConditions |-> <<"diabetes", "hypertension", "copd">>,
       medications |-> <<Med("A"), Med("B"), Med("C"), Med("D"), Med("E"), Med("F")>>,
       adherence_rate |-> 850, adherenceRate |-> 850, riskScore |-> 800,
       avgRefillGap |-> 3],
      <<>>,
      [age |-> 55, gender |-> "M", chronicConditions |-> <<"hypertension">>,
       medications |-> <<Med("B"), [dose |-> 1]>>,
       adherence_rate |-> 700, risk_score |-> 699],
      [medications |-> <<Med("A")>>, adherence_rate |-> 701, adherenceRate |-> 701,
       risk_score |-> 750, riskScore |-> 750],
      [age |-> 60, gender |-> "M", chronicConditions |-> <<>>,
       medications |-> <<Med("B")>>, adherence_rate |-> 800, adherenceRate |-> 800,
       risk_score |-> 300, riskScore |-> 300, avgRefillGap |-> 2]>>

WithId(profile, i) == ("id" :> PatientId(i)) @@ profile

\* a scan returns the items in no particular order: the lists of the model
\* take the profiles in ascending or in descending order of Profiles
Monotone(f) ==
    \/ \A i \in 1..(Len(f) - 1) : f[i] <= f[i + 1]
    \/ \A i \in 1..(Len(f) - 1) : f[i] >= f[i + 1]

PatientStores ==
    UNION {{[i \in 1..n |-> WithId(Profiles[f[i]], i)] :
                f \in {g \in [1..n -> 1..Len(Profiles)] : Monotone(g)}} :
           n \in 0..MaxPatients}

FixturePatients ==
    <<WithId([age |-> 25, gender |-> "F", chronicConditions |-> <<"diabetes">>,
              medications |-> <<MedA>>, adherence_rate |-> 500, adherenceRate |-> 500,
              risk_score |-> 750, riskScore |-> 750, avgRefillGap |-> 7, name |-> "Ann"], 1),
      WithId([age |-> 45, gender |-> "M", chronicConditions |-> <<>>,
              medications |-> <<Med("A")>>, adherence_rate |-> 900, adherenceRate |-> 900,
              risk_score |-> 400, riskScore |-> 400, avgRefillGap |-> 0], 2)>>

FixtureInterventions ==
    <<[patientId |-> "p1", type |-> "refill_reminder", priority |-> 2, effectiveness |-> 750],
      [patientId |-> "p1", type |-> "follow_up_call", priority |-> 1, effectiveness |-> 850]>>

FixtureAlerts ==
    <<[id |-> <<"alert", <<StartDay - 1, 0>>>>, type |-> "risk", severity |-> "warning",
       patientId |-> "p1", message |-> "m", createdAt |-> <<StartDay - 1, 0, 0>>],
      [id |-> <<"alert", <<StartDay - 1, 1>>>>, type |-> "risk", severity |-> "critical",
       patientId |-> "p2", message |-> "m", createdAt |-> <<StartDay - 1, 1, 0>>,
       acknowledgedAt |-> <<StartDay - 1, 2, 0>>, acknowledgedBy |-> "u"]>>

\* between two invocations: no event, no response
Idle == [idle |-> TRUE]

StartTime == [day |-> StartDay, sec |-> 0, usec |-> 0]

InitStores ==
    /\ interventions = FixtureInterventions
    /\ notes = <<>>
    /\ alerts = FixtureAlerts
    /\ jobs = <<>>
    /\ schedules = <<>>
    /\ conversations = <<>>
    /\ rules = {}
    /\ minted = 0
    /\ extCalls = <<>>
    /\ now = StartTime
    /\ req = Idle
    /\ resp = Idle

Init == patients = FixturePatients /\ InitStores

InitAgg == patients \in PatientStores /\ InitStores

-----------------------------------------------------------------------------
(* The events the model sends *)

Ev(method, path, id, query, body) ==
    [httpMethod |-> method, path |-> path, id |-> id, query |-> query, body |-> body]

NoQuery == <<>>

BAbsent == [kind |-> "absent"]
BNull == [kind |-> "null"]
BMalformed == [kind |-> "malformed"]
BJson(value) == [kind |-> "json", value |-> value]

DashboardPaths ==
    {<<"dashboard", "metrics">>, <<"dashboard", "alerts">>, <<"dashboard", "trends">>,
     <<"dashboard", "top-medications">>, <<"dashboard", "summary">>}

DashboardEvents ==
    {Ev(m, p, "", NoQuery, BAbsent) : m \in {"GET", "POST"}, p \in DashboardPaths}
    \cup {Ev("GET", <<"dashboard", "trends">>, "", [range |-> r], BAbsent) :
            r \in {"12months", "3months"}}

MedicationSubPaths == {"analytics", "trends", "demographics", "forecast"}

MedicationEvents ==
    {Ev(m, <<"medications", id, sub>>, id, NoQuery, BAbsent) :
        m \in {"GET"}, id \in {"A", "Z"}, sub \in MedicationSubPaths}
    \cup {Ev("GET", <<"medications", "A", "trends">>, "A", [period |-> "weekly"], BAbsent)}
    \cup {Ev(m, <<"medications", id>>, id, NoQuery, BAbsent) :
            m \in {"GET", "DELETE"}, id \in {"", "A"}}
    \cup {Ev("GET", <<"medications", "compare">>, "", q, BAbsent) :
            q \in {NoQuery, [ids |-> "A,B"], [ids |-> "B,,Z,A"]}}

PatientSubPaths == {"medications", "risk", "interventions", "notes"}

ListQueries ==
    {NoQuery, [risk |-> "high"], [risk |-> "medium"], [risk |-> "low"],
     [condition |-> "diabetes"], [limit |-> "1", offset |-> "1"],
     [limit |-> "ten"]}

NoteBodies == {BNull, BMalformed, BJson([content |-> "called", author |-> "rn"])}

PatientEvents ==
    {Ev("GET", <<"patients", id, sub>>, id, NoQuery, BAbsent) :
        id \in {"p1", "p9"}, sub \in PatientSubPaths}
    \cup {Ev("GET", <<"patients", id>>, id, NoQuery, BAbsent) : id \in {"p1", "p9"}}
    \cup {Ev("GET", <<"patients">>, "", q, BAbsent) : q \in ListQueries}
    \cup {Ev("POST", <<"patients", id, "notes">>, id, NoQuery, b) :
            id \in {"p1"}, b \in NoteBodies}
    \cup {Ev("POST", p, id, NoQuery, BMalformed) :
            p \in {<<"patients">>, <<"patients", "notes">>}, id \in {""}}
    \cup {Ev("POST", <<"patients", "p1", "risk">>, "p1", NoQuery, BAbsent)}
    \cup {Ev(m, <<"patients", "p1">>, "p1", NoQuery, b) :
            m \in {"PUT", "DELETE"}, b \in {BMalformed}}

GenaiPaths ==
    {<<"genai", "chat">>, <<"genai", "context", "reset">>, <<"genai", "explain">>,
     <<"genai", "script">>, <<"genai", "summary">>}

GenaiBodies ==
    {BAbsent, BNull, BMalformed,
     BJson([message |-> "hi"]),
     BJson([message |-> "hi", conversationId |-> "c1", context |-> [patientId |-> "p1"]]),
     BJson([conversationId |-> "c1"]),
     BJson([patientId |-> "p1"]),
     BJson([patientId |-> "p9"])}

GenaiEvents ==
    {Ev("POST", p, "", NoQuery, b) : p \in GenaiPaths, b \in GenaiBodies}
    \cup {Ev("GET", p, "", q, BAbsent) :
            p \in {<<"genai", "context">>, <<"genai", "chat">>},
            q \in {NoQuery, [conversationId |-> "c1"]}}
    \cup {Ev("DELETE", <<"genai", "context">>, "", NoQuery, BAbsent)}

JobId(n) == "job-" \o ToString(n)
ScheduleId(n) == "schedule-" \o ToString(n)


ScheduleBodies ==
    {BNull, BMalformed, BJson([name |-> "nightly", frequency |-> "weekly"])}

ScheduleUpdateBodies ==
    ScheduleBodies \cup {BAbsent, BJson([enabled |-> FALSE]), BJson([name |-> "weekly"])}

PredictionEvents ==
    {Ev("POST", <<"predictions", "batch">>, "", NoQuery, b) :
        b \in {BNull, BMalformed, BJson([cohort |-> "diabetes"])}}
    \cup {Ev("POST", <<"predictions", "schedules">>, "", NoQuery, b) : b \in ScheduleBodies}
    \cup {Ev("POST", <<"predictions", "schedules", id>>, id, NoQuery, BMalformed) :
            id \in {ScheduleId(1)}}
    \cup {Ev("POST", <<"predictions", "jobs">>, "", NoQuery, BMalformed)}
    \cup {Ev("GET", <<"predictions", "batch">>, "", NoQuery, BAbsent)}
    \cup {Ev("GET", <<"predictions", "jobs">>, "", NoQuery, BAbsent)}
    \cup {Ev("GET", <<"predictions", "jobs", id>>, id, NoQuery, BAbsent) :
            id \in {JobId(1), "job-0"}}
    \cup {Ev("GET", <<"predictions", "schedules">>, "", NoQuery, BAbsent)}
    \cup {Ev("GET", <<"predictions", "schedules", id>>, id, NoQuery, BAbsent) :
            id \in {ScheduleId(1), "schedule-0"}}
    \cup {Ev("PUT", <<"predictions", "schedules", id>>, id, NoQuery, b) :
            id \in {ScheduleId(1), "schedule-0"}, b \in ScheduleUpdateBodies}
    \cup {Ev("PUT", <<"predictions", "schedules">>, "", NoQuery, b) :
            b \in {BMalformed, BJson([name |-> "nightly", frequency |-> "weekly"])}}
    \cup {Ev("PUT", <<"predictions", "jobs", "job-0">>, "job-0", NoQuery, BMalformed)}
    \cup {Ev("DELETE", <<"predictions", "schedules", id>>, id, NoQuery, BAbsent) :
            id \in {ScheduleId(1), "schedule-0"}}
    \cup {Ev("DELETE", <<"predictions", "schedules">>, "", NoQuery, BAbsent)}
    \cup {Ev("DELETE", <<"predictions", "jobs", "job-0">>, "job-0", NoQuery, BAbsent)}
    \cup {Ev("PATCH", <<"predictions", "schedules", "schedule-0">>, "schedule-0",
             NoQuery, BAbsent)}

TrainingEvents ==
    {Ev("POST", <<"training">>, "", NoQuery, b) :
        b \in {BAbsent, BNull, BMalformed,
               BJson([datasetUri |-> "s3://data/train.csv"]),
               BJson([datasetUri |-> "s3://data/train.csv", modelName |-> "my model!"])}}

InferenceEvents ==
    {Ev("POST", <<"inference">>, "", NoQuery, b) :
        b \in {BAbsent, BNull, BMalformed,
               BJson([inputDataUri |-> "s3://data/in.csv"])}}

\* the values str(uuid.uuid4()) takes in the inference handler
InferenceIds == {"inference-1", "inference-2"}

BedrockOutcomes == {"text", "empty", "error"}

-----------------------------------------------------------------------------
(* Actions: one per lambda_handler *)

StoreSize(nt, jb, sc, cv) == Len(nt) + Len(jb) + Len(sc) + Len(cv)

\* the model keeps the stores within MaxItems items and every conversation
\* within MaxMessages messages
WithinBounds(nt, jb, sc, cv) ==
    /\ StoreSize(nt, jb, sc, cv) <= MaxItems
    /\ \A i \in 1..Len(cv) : Len(Get(cv[i], "messages", <<>>)) <= MaxMessages

Request(handler, event) == [handler |-> handler, event |-> event]

\* the random streams an invocation can draw from: the routes other than
\* metrics, trends and analytics draw nothing
StreamsOf(event) ==
    IF \E x \in {"metrics", "trends", "analytics"} : Contains(event.path, <<x>>)
    THEN 0..(NumStreams - 1)
    ELSE {0}

DashboardInvoke(events) ==
    /\ resp = Idle
    /\ \E e \in events : \E stream \in StreamsOf(e) :
        /\ req' = Request("dashboard", e)
        /\ resp' = Catch500(dashboard_lambda_handler(e, patients, alerts, now, stream))
    /\ extCalls' = <<>>
    /\ UNCHANGED <<patients, interventions, notes, alerts, jobs, schedules,
                   conversations, rules, minted, now>>

MedicationInvoke(events) ==
    /\ resp = Idle
    /\ \E e \in events : \E stream \in StreamsOf(e) :
        /\ req' = Request("medication", e)
        /\ resp' = Catch500(medication_lambda_handler(e, patients, now, stream))
    /\ extCalls' = <<>>
    /\ UNCHANGED <<patients, interventions, notes, alerts, jobs, schedules,
                   conversations, rules, minted, now>>

PatientInvoke(events) ==
    /\ resp = Idle
    /\ \E e \in events :
        LET r == patient_lambda_handler(e, patients, interventions, notes, now)
        IN  /\ req' = Request("patient", e)
            /\ resp' = r.resp
            /\ notes' = r.notes
    /\ WithinBounds(notes', jobs, schedules, conversations)
    /\ extCalls' = <<>>
    /\ UNCHANGED <<patients, interventions, alerts, jobs, schedules,
                   conversations, rules, minted, now>>

GenaiInvoke(events) ==
    /\ resp = Idle
    /\ \E e \in events, outcome \in BedrockOutcomes :
        LET r == genai_lambda_handler(e, patients, conversations, outcome, now)
        IN  /\ req' = Request("genai", e)
            /\ resp' = Catch500(r.resp)
            /\ conversations' = r.conversations
            /\ extCalls' = r.extCalls
    /\ WithinBounds(notes, jobs, schedules, conversations')
    /\ UNCHANGED <<patients, interventions, notes, alerts, jobs, schedules,
                   rules, minted, now>>

PredictionInvoke(events) ==
    /\ resp = Idle
    /\ \E e \in events, submitted \in {TRUE}, works \in BOOLEAN :
        LET fresh_id == IF Contains(e.path, <<"batch">>)
                        THEN JobId(minted + 1) ELSE ScheduleId(minted + 1)
            r == prediction_lambda_handler(e, jobs, schedules, rules,
                                           fresh_id, submitted, works, now)
        IN  /\ req' = Request("prediction", e)
            /\ resp' = r.resp
            /\ jobs' = r.jobs
            /\ schedules' = r.schedules
            /\ rules' = r.rules
            /\ extCalls' = r.extCalls
            \* a uuid is drawn by start_batch_prediction and create_schedule
            /\ minted' = IF r.resp.statusCode \in {201, 202} THEN minted + 1 ELSE minted
    /\ WithinBounds(notes, jobs', schedules', conversations)
    /\ minted' <= MaxItems
    /\ UNCHANGED <<patients, interventions, notes, alerts, conversations, now>>

TrainingInvoke(events) ==
    /\ resp = Idle
    /\ \E e \in events :
        /\ req' = Request("training", e)
        /\ resp' = training_lambda_handler(e, now)
    /\ extCalls' = <<>>
    /\ UNCHANGED <<patients, interventions, notes, alerts, jobs, schedules,
                   conversations, rules, minted, now>>

InferenceInvoke(events) ==
    /\ resp = Idle
    /\ \E e \in events, inference_id \in InferenceIds :
        /\ req' = Request("inference", e)
        /\ resp' = inference_lambda_handler(e, inference_id, now)
    /\ extCalls' = <<>>
    /\ UNCHANGED <<patients, interventions, notes, alerts, jobs, schedules,
                   conversations, rules, minted, now>>

\* the response goes back to the caller; the function waits for an event
AwaitNextEvent ==
    /\ resp # Idle
    /\ req' = Idle
    /\ resp' = Idle
    /\ extCalls' = <<>>
    /\ UNCHANGED <<patients, interventions, notes, alerts, jobs, schedules,
                   conversations, rules, minted, now>>

\* time passes between two invocations
Tick ==
    /\ resp = Idle
    /\ now.usec < MaxTicks
    /\ now' = [now EXCEPT !.usec = @ + 1]
    /\ UNCHANGED <<patients, interventions, notes, alerts, jobs, schedules,
                   conversations, rules, minted, extCalls, req, resp>>

Next ==
    \/ DashboardInvoke(DashboardEvents)
    \/ MedicationInvoke(MedicationEvents)
    \/ PatientInvoke(PatientEvents)
    \/ GenaiInvoke(GenaiEvents)
    \/ PredictionInvoke(PredictionEvents)
    \/ TrainingInvoke(TrainingEvents)
    \/ InferenceInvoke(InferenceEvents)
    \/ AwaitNextEvent
    \/ Tick

Spec == Init /\ [][Next]_vars

-----------------------------------------------------------------------------
(* The aggregation functions over every patient list of PatientStores *)

AggPatientEvents ==
    {Ev("GET", <<"patients", PatientId(i), "risk">>, PatientId(i), NoQuery, BAbsent) :
        i \in 1..MaxPatients}
    \cup {Ev("GET", <<"patients">>, "", q, BAbsent) : q \in ListQueries}

AggMedicationEvents ==
    MedicationEvents
    \cup {Ev("GET", <<"medications", "B", sub>>, "B", NoQuery, BAbsent) :
            sub \in MedicationSubPaths}

NextAgg ==
    \/ DashboardInvoke(DashboardEvents)
    \/ MedicationInvoke(AggMedicationEvents)
    \/ PatientInvoke(AggPatientEvents)
    \/ AwaitNextEvent

SpecAgg == InitAgg /\ [][NextAgg]_vars

-----------------------------------------------------------------------------
(* list_patients over a store of NumPagePatients patients *)

NumPagePatients == 20

\* patient i of the store: the risk scores are pairwise different
PagePatient(i) ==
    [id |-> PatientId(i),
     riskScore |-> (i * 47) % 1001,
     chronicConditions |-> IF i % 2 = 0 THEN <<"diabetes">> ELSE <<>>]

\* the scan returns the store in the order of the ids or in the opposite one
PageStores ==
    {[i \in 1..NumPagePatients |-> PagePatient(i)],
     [i \in 1..NumPagePatients |-> PagePatient(NumPagePatients + 1 - i)]}

PageQueries ==
    {[limit |-> l, offset |-> o] : l \in {"0", "1", "5", "10", "20", "50"},
                                   o \in {"0", "5", "10", "15", "19", "25"}}
    \cup {[limit |-> l, offset |-> o, risk |-> r] :
            l \in {"1", "5"}, o \in {"0", "5"}, r \in {"high", "medium", "low"}}
    \cup {[limit |-> l, offset |-> o, condition |-> "diabetes"] :
            l \in {"5", "10"}, o \in {"0", "5", "15"}}
    \cup {[offset |-> "5"], [limit |-> "10"]}

PageEvents == {Ev("GET", <<"patients">>, "", q, BAbsent) : q \in PageQueries}

InitPage == patients \in PageStores /\ InitStores

NextPage ==
    \/ PatientInvoke(PageEvents)
    \/ AwaitNextEvent

SpecPage == InitPage /\ [][NextPage]_vars

-----------------------------------------------------------------------------
(* The alert functions of dashboard_handler.py, called one after another *)

\* the ids acknowledge_alert is called with: the acknowledged alert of the
\* fixture, and the id create_alert mints in the first second of StartDay
AckIds == {FixtureAlerts[2]["id"], <<"alert", <<StartDay, 0>>>>}

CreateAlert ==
    /\ resp = Idle
    /\ \E severity \in {"info", "critical"}, message \in {"missed refill"} :
        /\ req' = Request("create_alert",
                          [alert_type |-> "risk", severity |-> severity,
                           patient_id |-> "p1", message |-> message])
        /\ alerts' = create_alert(alerts, "risk", severity, "p1", message, now)
        /\ resp' = NewAlert("risk", severity, "p1", message, now)
    /\ Len(alerts') <= MaxAlerts
    /\ extCalls' = <<>>
    /\ UNCHANGED <<patients, interventions, notes, jobs, schedules,
                   conversations, rules, minted, now>>

\* update_item(..., ReturnValues='ALL_NEW'): the call returns the new item
AcknowledgeAlert ==
    /\ resp = Idle
    /\ \E alert_id \in AckIds, user_id \in {"v"} :
        /\ req' = Request("acknowledge_alert",
                          [alert_id |-> alert_id, user_id |-> user_id])
        /\ alerts' = acknowledge_alert(alerts, alert_id, user_id, now)
        /\ resp' = GetItem(alerts', "id", alert_id)
    /\ Len(alerts') <= MaxAlerts
    /\ extCalls' = <<>>
    /\ UNCHANGED <<patients, interventions, notes, jobs, schedules,
                   conversations, rules, minted, now>>

\* the clock reaches the next second between two calls
NextSecond ==
    /\ resp = Idle
    /\ now.sec < MaxSeconds
    /\ now' = [now EXCEPT !.sec = @ + 1, !.usec = 0]
    /\ UNCHANGED <<patients, interventions, notes, alerts, jobs, schedules,
                   conversations, rules, minted, extCalls, req, resp>>

ActiveAlertsEvents == {Ev("GET", <<"dashboard", "alerts">>, "", NoQuery, BAbsent)}

NextAlerts ==
    \/ CreateAlert
    \/ AcknowledgeAlert
    \/ DashboardInvoke(ActiveAlertsEvents)
    \/ AwaitNextEvent
    \/ Tick
    \/ NextSecond

SpecAlerts == Init /\ [][NextAlerts]_vars

-----------------------------------------------------------------------------
(* start_batch_prediction write by write, with get_job_status and list_jobs *)

BatchEvents ==
    {Ev("POST", <<"predictions", "batch">>, "", NoQuery, b) :
        b \in {BAbsent, BJson([cohort |-> "diabetes"]),
               BJson([cohort |-> "copd", dateRangeStart |-> "2024-01-01"])}}

JobEvents ==
    {Ev("GET", <<"predictions", "jobs", id>>, id, NoQuery, BAbsent) :
        id \in {JobId(1), JobId(2), "job-0"}}
    \cup {Ev("GET", <<"predictions", "jobs">>, "", NoQuery, BAbsent)}

\* the call is between its put_item and its update_item
InFlight(job_id) == [inflight |-> job_id]

\* jobs_table.put_item(Item=job): the job is stored as the response body
\* will show it, with status pending
SubmitBatch ==
    /\ resp = Idle
    /\ minted < MaxItems
    /\ \E e \in BatchEvents :
        LET r == prediction_lambda_handler(e, jobs, schedules, rules,
                                           JobId(minted + 1), TRUE, TRUE, now)
        IN  /\ req' = Request("prediction", e)
            /\ jobs' = PutItem(jobs, "jobId", r.resp.body.json)
            /\ resp' = InFlight(JobId(minted + 1))
    /\ WithinBounds(notes, jobs', schedules, conversations)
    /\ minted' = minted + 1
    /\ extCalls' = <<>>
    /\ UNCHANGED <<patients, interventions, notes, alerts, schedules,
                   conversations, rules, now>>

\* start_sagemaker_batch_job, the update_item of the status and the return
BatchStarted ==
    /\ resp # Idle
    /\ "inflight" \in DOMAIN resp
    /\ LET r == prediction_lambda_handler(req.event, jobs, schedules, rules,
                                          resp.inflight, TRUE, TRUE, now)
       IN  /\ jobs' = r.jobs
           /\ resp' = r.resp
    /\ UNCHANGED <<patients, interventions, notes, alerts, schedules,
                   conversations, rules, minted, extCalls, now, req>>

NextJobs ==
    \/ SubmitBatch
    \/ BatchStarted
    \/ PredictionInvoke(JobEvents)
    \/ AwaitNextEvent
    \/ Tick

SpecJobs == Init /\ [][NextJobs]_vars

-----------------------------------------------------------------------------
(* A client that sends its last genai or prediction request a second time *)

\* the event of req is handled again, at the same or a later clock value,
\* before the function waits for another event
Retry ==
    /\ resp # Idle
    /\ "attempt" \notin DOMAIN req
    /\ req.handler \in {"genai", "prediction"}
    /\ req' = [attempt |-> 2] @@ req
    /\ \E t \in {now, [now EXCEPT !.usec = @ + 1]},
          outcome \in BedrockOutcomes, works \in BOOLEAN :
        LET e == req.event
            fresh_id == IF Contains(e.path, <<"batch">>)
                        THEN JobId(minted + 1) ELSE ScheduleId(minted + 1)
            g == genai_lambda_handler(e, patients, conversations, outcome, t)
            p == prediction_lambda_handler(e, jobs, schedules, rules,
                                           fresh_id, TRUE, works, t)
        IN  /\ t.usec <= MaxTicks
            /\ now' = t
            /\ IF req.handler = "genai"
               THEN /\ resp' = Catch500(g.resp)
                    /\ conversations' = g.conversations
                    /\ extCalls' = g.extCalls
                    /\ UNCHANGED <<jobs, schedules, rules, minted>>
               ELSE /\ resp' = p.resp
                    /\ jobs' = p.jobs
                    /\ schedules' = p.schedules
                    /\ rules' = p.rules
                    /\ extCalls' = p.extCalls
                    /\ minted' = IF p.resp.statusCode \in {201, 202}
                                 THEN minted + 1 ELSE minted
                    /\ UNCHANGED conversations
    /\ WithinBounds(notes, jobs', schedules', conversations')
    /\ minted' <= MaxItems
    /\ UNCHANGED <<patients, interventions, notes, alerts>>

NextRetry ==
    \/ GenaiInvoke(GenaiEvents)
    \/ PredictionInvoke(PredictionEvents)
    \/ Retry
    \/ AwaitNextEvent
    \/ Tick

SpecRetry == Init /\ [][NextRetry]_vars

-----------------------------------------------------------------------------
(* start_batch_prediction against a batch service that can refuse the job *)

\* POST /predictions/batch; submitted is FALSE when start_sagemaker_batch_job
\* raises, and the call is recorded with its outcome
StartBatch ==
    /\ resp = Idle
    /\ minted < MaxItems
    /\ \E e \in BatchEvents, submitted \in BOOLEAN :
        LET r == prediction_lambda_handler(e, jobs, schedules, rules,
                                           JobId(minted + 1), submitted, TRUE, now)
        IN  /\ req' = Request("prediction", e)
            /\ resp' = r.resp
            /\ jobs' = r.jobs
            /\ extCalls' = <<[service |-> "sagemaker", op |-> "start_batch_job",
                              raised |-> ~submitted]>>
    /\ WithinBounds(notes, jobs', schedules, conversations)
    /\ minted' = minted + 1
    /\ UNCHANGED <<patients, interventions, notes, alerts, schedules,
                   conversations, rules, now>>

NextBatch ==
    \/ StartBatch
    \/ PredictionInvoke(JobEvents)
    \/ AwaitNextEvent
    \/ Tick

SpecBatch == Init /\ [][NextBatch]_vars

-----------------------------------------------------------------------------
(* chat call by call, for two concurrent invocations of the genai handler.   *)
(* Under SpecChat req[p] and resp[p] are the event and the position of       *)
(* invocation p; the position records what chat holds in its locals.         *)

MaxChats == 4

Procs == {1, 2}

InitChat ==
    /\ patients = FixturePatients
    /\ interventions = FixtureInterventions
    /\ notes = <<>>
    /\ alerts = FixtureAlerts
    /\ jobs = <<>>
    /\ schedules = <<>>
    /\ conversations = <<>>
    /\ rules = {}
    /\ minted = 0
    /\ extCalls = <<>>
    /\ now = StartTime
    /\ req = [p \in Procs |-> Idle]
    /\ resp = [p \in Procs |-> Idle]

\* lambda_handler routes the POST to chat, which reads the history when the
\* request has a conversationId; minted counts the questions asked so far
ChatBegin(p) ==
    /\ req[p] = Idle
    /\ minted < MaxChats
    /\ \E with_id \in BOOLEAN :
        LET message == "q" \o ToString(minted + 1)
            body == IF with_id
                    THEN [message |-> message, conversationId |-> "c1"]
                    ELSE [message |-> message]
            conversation_id == Get(body, "conversationId", "")
            history == IF conversation_id # ""
                       THEN get_conversation_history(conversations, conversation_id)
                       ELSE <<>>
        IN  /\ req' = [req EXCEPT ![p] =
                        Request("genai", Ev("POST", <<"genai", "chat">>, "", NoQuery,
                                            BJson(body)))]
            /\ resp' = [resp EXCEPT ![p] = [pc |-> "invoke", history |-> history]]
    /\ minted' = minted + 1
    /\ UNCHANGED <<patients, interventions, notes, alerts, jobs, schedules,
                   conversations, rules, extCalls, now>>

\* build_prompt and invoke_bedrock
ChatInvoke(p) ==
    /\ req[p] # Idle
    /\ resp[p].pc = "invoke"
    /\ \E outcome \in BedrockOutcomes :
        LET body == req[p].event.body.value
            prompt == build_prompt(body.message, resp[p].history,
                                   Get(body, "context", <<>>))
        IN  /\ resp' = [resp EXCEPT ![p] =
                          [pc |-> IF Has(body, "conversationId")
                                  THEN "save_user" ELSE "return",
                           history |-> resp[p].history,
                           response |-> invoke_bedrock(prompt, outcome)]]
            /\ extCalls' = <<[service |-> "bedrock", prompt |-> prompt]>>
    /\ UNCHANGED <<patients, interventions, notes, alerts, jobs, schedules,
                   conversations, rules, minted, now, req>>

\* save_message(conversation_id, 'user', message)
ChatSaveUser(p) ==
    /\ req[p] # Idle
    /\ resp[p].pc = "save_user"
    /\ LET body == req[p].event.body.value
       IN  conversations' = save_message(conversations, body.conversationId,
                                         "user", <<body.message>>)
    /\ resp' = [resp EXCEPT ![p].pc = "save_assistant"]
    /\ UNCHANGED <<patients, interventions, notes, alerts, jobs, schedules,
                   rules, minted, extCalls, now, req>>

\* save_message(conversation_id, 'assistant', response)
ChatSaveAssistant(p) ==
    /\ req[p] # Idle
    /\ resp[p].pc = "save_assistant"
    /\ LET body == req[p].event.body.value
       IN  conversations' = save_message(conversations, body.conversationId,
                                         "assistant", resp[p].response)
    /\ resp' = [resp EXCEPT ![p].pc = "return"]
    /\ UNCHANGED <<patients, interventions, notes, alerts, jobs, schedules,
                   rules, minted, extCalls, now, req>>

\* chat returns its 200 response and the invocation ends
ChatReturn(p) ==
    /\ req[p] # Idle
    /\ resp[p].pc = "return"
    /\ req' = [req EXCEPT ![p] = Idle]
    /\ resp' = [resp EXCEPT ![p] = Idle]
    /\ UNCHANGED <<patients, interventions, notes, alerts, jobs, schedules,
                   conversations, rules, minted, extCalls, now>>

NextChat ==
    \E p \in Procs :
        \/ ChatBegin(p)
        \/ ChatInvoke(p)
        \/ ChatSaveUser(p)
        \/ ChatSaveAssistant(p)
        \/ ChatReturn(p)

SpecChat == InitChat /\ [][NextChat]_vars

-----------------------------------------------------------------------------
(* Clients that keep polling their jobs, handlers that run to their end *)

\* GET /predictions/jobs/{id} for the n-th job
PollEvent(n) == Ev("GET", <<"predictions", "jobs", JobId(n)>>, JobId(n), NoQuery, BAbsent)

SpecPoll ==
    /\ Init
    /\ [][NextJobs]_vars
    /\ WF_vars(BatchStarted)
    /\ WF_vars(AwaitNextEvent)
    /\ \A n \in 1..MaxItems : SF_vars(PredictionInvoke({PollEvent(n)}))

-----------------------------------------------------------------------------
(* The schedule routes alone: every uuid drawn is a schedule id *)

ScheduleEvents == {e \in PredictionEvents : Contains(e.path, <<"schedules">>)}

NextSchedules ==
    \/ PredictionInvoke(ScheduleEvents)
    \/ AwaitNextEvent
    \/ Tick

SpecSchedules == Init /\ [][NextSchedules]_vars

-----------------------------------------------------------------------------
(* Router and envelope properties, under Spec *)

\* a handler has answered the event in req with resp
Responded == resp # Idle

HasStatus(code) ==
    Responded /\ "statusCode" \in DOMAIN resp /\ resp.statusCode = code

IsRequest(handler, method, segment) ==
    /\ Responded
    /\ req.handler = handler
    /\ req.event.httpMethod = method
    /\ Contains(req.event.path, <<segment>>)

RoutedHandlers == {"dashboard", "genai", "medication", "patient", "prediction"}

\* the methods a handler serves on at least one path
HandlerMethods(handler) ==
    CASE handler \in {"dashboard", "medication"} -> {"GET"}
      [] handler \in {"patient", "genai"} -> {"GET", "POST"}
      [] OTHER -> {"GET", "POST", "PUT", "DELETE"}

PostOnlyPath(handler, path) ==
    \/ handler = "genai" /\ Contains(path, <<"chat">>)
    \/ handler = "prediction" /\ Contains(path, <<"batch">>)

MethodNotSupported ==
    /\ req.handler \in RoutedHandlers
    /\ \/ req.event.httpMethod \notin HandlerMethods(req.handler)
       \/ req.event.httpMethod = "GET" /\ PostOnlyPath(req.handler, req.event.path)

\* C1: a request whose method the routed handler does not support for the
\* path (a GET on /genai/chat or /predictions/batch, or a method the handler
\* serves on no path) is answered with status 405.
C1_UnsupportedMethodIs405 ==
    (Responded /\ MethodNotSupported) => HasStatus(405)

\* the event has a supported method and matches none of the handler's routes
NoRouteMatches ==
    LET e == req.event
        has(segment) == Contains(e.path, <<segment>>)
    IN  CASE req.handler = "dashboard" ->
                /\ e.httpMethod = "GET"
                /\ ~\E x \in {"metrics", "alerts", "trends", "top-medications"} : has(x)
          [] req.handler = "medication" ->
                /\ e.httpMethod = "GET"
                /\ e.id # ""
                /\ ~\E x \in MedicationSubPaths : has(x)
          [] req.handler = "patient" ->
                /\ e.httpMethod = "POST"
                /\ ~(e.id # "" /\ has("notes"))
          [] req.handler = "genai" ->
                \/ e.httpMethod = "GET" /\ ~has("context")
                \/ /\ e.httpMethod = "POST"
                   /\ e.body.kind \in {"absent", "json"}
                   /\ ~\E x \in {"chat", "explain", "script"} : has(x)
                   /\ ~Contains(e.path, <<"context", "reset">>)
          [] req.handler = "prediction" ->
                \/ e.httpMethod = "POST"
                   /\ ~has("batch") /\ ~(has("schedules") /\ e.id = "")
                \/ e.httpMethod = "GET" /\ ~has("jobs") /\ ~has("schedules")
                \/ e.httpMethod \in {"PUT", "DELETE"} /\ ~has("schedules")
          [] OTHER -> FALSE

\* C2: a request with a supported method whose path and path parameters match
\* none of the handler's routes is answered with status 404 (dashboard GET on
\* an unknown path, medication GET with an id and no sub-path, patient POST
\* to a path other than /patients/{id}/notes).
C2_UnmatchedPathIs404 ==
    (Responded /\ NoRouteMatches) => HasStatus(404)

\* C3: every response is an envelope with a statusCode, the headers
\* Content-Type: application/json and Access-Control-Allow-Origin: *, and a
\* JSON string body; every response of status >= 400 has the body
\* {"error": message}.
C3_ResponseEnvelope ==
    Responded =>
        /\ {"statusCode", "headers", "body"} \subseteq DOMAIN resp
        /\ {"Content-Type", "Access-Control-Allow-Origin"} \subseteq DOMAIN resp.headers
        /\ resp.headers["Content-Type"] = "application/json"
        /\ resp.headers["Access-Control-Allow-Origin"] = "*"
        /\ DOMAIN resp.body = {"json"}
        /\ resp.statusCode >= 400 => DOMAIN resp.body.json = {"error"}

\* the event reaches a json.loads of its body
ParsesBody ==
    LET e == req.event
        has(segment) == Contains(e.path, <<segment>>)
    IN  CASE req.handler = "genai" -> e.httpMethod = "POST"
          [] req.handler = "patient" ->
                e.httpMethod = "POST" /\ e.id # "" /\ has("notes")
          [] req.handler = "prediction" ->
                \/ e.httpMethod = "POST" /\ (has("batch") \/ (has("schedules") /\ e.id = ""))
                \/ e.httpMethod = "PUT" /\ has("schedules")
          [] req.handler \in {"training", "inference"} -> TRUE
          [] OTHER -> FALSE

InvalidJsonArrived ==
    /\ Responded
    /\ req.event.httpMethod \in {"POST", "PUT"}
    /\ ParsesBody
    /\ req.event.body.kind \in {"null", "malformed"}

ParseErrorOf(body) ==
    IF body.kind = "null"
    THEN "the JSON object must be str, bytes or bytearray, not NoneType"
    ELSE "Expecting value: line 1 column 1 (char 0)"

\* C4: a POST or PUT whose body is not valid JSON, on a route that reads the
\* body (genai, patient notes, prediction batch and schedules, training,
\* inference), is answered with status 500 and the parse error as the error
\* message; the step writes to no record store and calls no external service.
C4_InvalidJsonIs500 ==
    [][InvalidJsonArrived' =>
            /\ resp'.statusCode = 500
            /\ resp'.body = JsonDumps([error |-> ParseErrorOf(req'.event.body)])
            /\ extCalls' = <<>>
            /\ UNCHANGED <<patients, interventions, notes, alerts, jobs, schedules,
                           conversations, rules>>]_vars

\* C4 witness: a PUT on a schedule with a malformed body has been answered 500
C4_Witness ==
    /\ InvalidJsonArrived
    /\ req.handler = "prediction"
    /\ req.event.httpMethod = "PUT"
    /\ req.event.body.kind = "malformed"
    /\ HasStatus(500)
    /\ schedules # <<>>

-----------------------------------------------------------------------------
(* Aggregation properties, under SpecAgg *)

\* the JSON value of the response body
Body == resp.body.json

IsAnswer(handler, segment) ==
    IsRequest(handler, "GET", segment) /\ HasStatus(200)

\* C5: the risk category of a stored record is the same in every handler, so
\* the highRiskCount of get_dashboard_metrics equals the total that
\* list_patients returns for risk=high on the same store.
C5_RiskCategoryConsistent ==
    IsAnswer("dashboard", "metrics") =>
        Body.highRiskCount = list_patients(patients, [risk |-> "high"]).body.json.total

\* the risk get_dashboard_metrics reads from record i
RiskOf(i) == Get(patients[i], "risk_score", 0)

\* C6: get_dashboard_metrics reports as highRiskCount the number of records
\* with risk >= 0.7 and as mediumRiskCount the number with 0.4 <= risk < 0.7;
\* the two never exceed totalPatients together, and N patients all at risk
\* 0.75 give highRiskCount = N and mediumRiskCount = 0.
C6_RiskCounts ==
    IsAnswer("dashboard", "metrics") =>
        LET high == {i \in 1..Len(patients) : RiskOf(i) >= 700}
            medium == {i \in 1..Len(patients) : 400 <= RiskOf(i) /\ RiskOf(i) < 700}
        IN  /\ Body.highRiskCount = Cardinality(high)
            /\ Body.mediumRiskCount = Cardinality(medium)
            /\ high \cap medium = {}
            /\ Body.totalPatients = Len(patients)
            /\ Body.highRiskCount + Body.mediumRiskCount <= Body.totalPatients
            /\ (\A i \in 1..Len(patients) : RiskOf(i) = 750) =>
                    /\ Body.highRiskCount = Len(patients)
                    /\ Body.mediumRiskCount = 0

\* C6 witness: the metrics of a store of two or more patients, all at 0.75
C6_Witness ==
    /\ IsAnswer("dashboard", "metrics")
    /\ Len(patients) >= 2
    /\ \A i \in 1..Len(patients) : RiskOf(i) = 750
    /\ Body.highRiskCount = Len(patients)
    /\ Body.mediumRiskCount = 0

\* the patient list the medication handler aggregates for the request
Cohort == MedPatients(patients, req.event.id)

\* C7: on an empty patient list nothing divides by zero: the overall
\* adherence rate is 0, get_medication_risks is [], the points of
\* calculate_adherence_trend and calculate_trends have a rate within
\* [0, 0.05] and patientCount 0, calculate_demographics is three empty maps,
\* calculate_condition_comparison is [], and generate_forecast predicts from
\* a current mean of 0.
C7_EmptyList ==
    /\ (IsAnswer("dashboard", "metrics") /\ patients = <<>>) =>
            /\ Body.adherenceRate = 0
            /\ Body.topMedications = <<>>
            /\ Len(Body.adherenceTrend) = 6
            /\ \A k \in 1..Len(Body.adherenceTrend) :
                    /\ Body.adherenceTrend[k].adherenceRate \in 0..50
                    /\ Body.adherenceTrend[k].patientCount = 0
    /\ (IsAnswer("dashboard", "top-medications") /\ patients = <<>>) =>
            Body.medications = <<>>
    /\ (IsAnswer("dashboard", "trends") /\ patients = <<>>) =>
            /\ Len(Body.trends) \in {6, 12}
            /\ \A k \in 1..Len(Body.trends) :
                    /\ Body.trends[k].adherenceRate \in 0..50
                    /\ Body.trends[k].patientCount = 0
    /\ (IsAnswer("medication", "trends") /\ Cohort = <<>>) =>
            /\ Len(Body.trends) = 12
            /\ \A k \in 1..Len(Body.trends) :
                    /\ Body.trends[k].mpr \in 0..50
                    /\ Body.trends[k].patientCount = 0
    /\ (IsAnswer("medication", "demographics") /\ Cohort = <<>>) =>
            /\ DOMAIN Body.ageGroups = {}
            /\ DOMAIN Body.genderDistribution = {}
            /\ DOMAIN Body.conditionDistribution = {}
    /\ (IsAnswer("medication", "forecast") /\ Cohort = <<>>) =>
            /\ Len(Body.forecast) = 30
            /\ \A k \in 1..Len(Body.forecast) :
                    /\ Body.forecast[k].predictedAdherence = 0
                    /\ Body.forecast[k].confidenceLower = 0
                    /\ Body.forecast[k].confidenceUpper = 50 + (k - 1)
    /\ (Responded /\ patients = <<>>) =>
            calculate_condition_comparison(patients, "A") = <<>>

\* C7 witness: the trends of an empty store, with a point at each end of the
\* range
C7_Witness ==
    /\ IsAnswer("dashboard", "trends")
    /\ patients = <<>>
    /\ \E k \in 1..Len(Body.trends) : Body.trends[k].adherenceRate = 0
    /\ \E k \in 1..Len(Body.trends) : Body.trends[k].adherenceRate > 0

\* the medication entries of record i that carry the name, and what
\* get_medication_risks reads from the record
EntriesNamed(i, name) ==
    LET meds == Get(patients[i], "medications", <<>>)
    IN  Cardinality({j \in 1..Len(meds) : Get(meds[j], "name", "Unknown") = name})

AdherenceOf(i) == Get(patients[i], "adherence_rate", 0)

MedicationNames ==
    UNION {LET meds == Get(patients[i], "medications", <<>>)
           IN  {Get(meds[j], "name", "Unknown") : j \in 1..Len(meds)} :
           i \in 1..Len(patients)}

PairCount(name) == SumSeq([i \in 1..Len(patients) |-> EntriesNamed(i, name)])

AdherenceSum(name) ==
    SumSeq([i \in 1..Len(patients) |-> AdherenceOf(i) * EntriesNamed(i, name)])

\* 1 - mean adherence over the pairs of the name, as a fraction
ExactNonAdherence(name) ==
    Frac(1000 * PairCount(name) - AdherenceSum(name), PairCount(name))

\* one entry per medication name, counted and rated over its pairs, the rate
\* reported to three decimals, the list in descending order of the rate
RankedPerName(list) ==
    /\ {list[k].medicationName : k \in 1..Len(list)} = MedicationNames
    /\ Len(list) = Cardinality(MedicationNames)
    /\ \A k \in 1..Len(list) :
            /\ list[k].patientCount = PairCount(list[k].medicationName)
            /\ list[k].nonAdherenceRate =
                    Round3(ExactNonAdherence(list[k].medicationName))
            /\ list[k].riskLevel \in {"High", "Medium", "Low"}
    /\ \A k \in 1..(Len(list) - 1) :
            list[k].nonAdherenceRate >= list[k + 1].nonAdherenceRate

\* the riskLevel of every entry follows from the rate the entry reports
LevelFromReportedRate(list) ==
    \A k \in 1..Len(list) :
        /\ list[k].riskLevel = "High" <=> list[k].nonAdherenceRate >= 300
        /\ list[k].riskLevel = "Medium" <=>
                (150 <= list[k].nonAdherenceRate /\ list[k].nonAdherenceRate < 300)

\* the riskLevel of every entry follows from 1 - mean before it is rounded
LevelFromExactRate(list) ==
    \A k \in 1..Len(list) :
        LET f == ExactNonAdherence(list[k].medicationName)
        IN  /\ list[k].riskLevel = "High" <=> FracGe(f, 300)
            /\ list[k].riskLevel = "Medium" <=> (FracGe(f, 150) /\ FracLt(f, 300))

TopFiveOf(list) == SubSeq(list, 1, Min2(5, Len(list)))

\* the store of the example: adherence 0.5 and 0.9, each on medication A only
TwoOnA ==
    /\ Len(patients) = 2
    /\ AdherenceOf(1) = 500 /\ AdherenceOf(2) = 900
    /\ MedicationNames = {"A"} /\ PairCount("A") = 2

ExampleOnA(list) ==
    TwoOnA => list = <<[medicationName |-> "A", nonAdherenceRate |-> 300,
                        patientCount |-> 2, riskLevel |-> "High"]>>

\* C8 as stated: get_medication_risks has one entry per medication name, with
\* patientCount the number of (patient, entry) pairs, nonAdherenceRate
\* 1 - mean adherence, riskLevel High iff nonAdherenceRate >= 0.30, Medium iff
\* 0.15 <= nonAdherenceRate < 0.30, Low otherwise, in descending order of
\* nonAdherenceRate; topMedications is its first min(5, length) entries and
\* get_top_medications the whole list.
C8_LevelOfReportedRate ==
    /\ IsAnswer("dashboard", "top-medications") =>
            /\ RankedPerName(Body.medications)
            /\ LevelFromReportedRate(Body.medications)
            /\ ExampleOnA(Body.medications)
    /\ IsAnswer("dashboard", "metrics") =>
            /\ Body.topMedications = TopFiveOf(get_medication_risks(patients))
            /\ LevelFromReportedRate(Body.topMedications)

\* C8 amended: as C8, with nonAdherenceRate reported as 1 - mean rounded to
\* three decimals and riskLevel decided by 1 - mean before the rounding.
C8_LevelOfExactRate ==
    /\ IsAnswer("dashboard", "top-medications") =>
            /\ RankedPerName(Body.medications)
            /\ LevelFromExactRate(Body.medications)
            /\ ExampleOnA(Body.medications)
    /\ IsAnswer("dashboard", "metrics") =>
            /\ Body.topMedications = TopFiveOf(get_medication_risks(patients))
            /\ Len(Body.topMedications) = Min2(5, Cardinality(MedicationNames))
            /\ LevelFromExactRate(Body.topMedications)

\* C8 witness: the ranking of a store with more than five medication names,
\* answered in full by get_top_medications
C8_Witness ==
    /\ IsAnswer("dashboard", "top-medications")
    /\ Cardinality(MedicationNames) > 5
    /\ Len(Body.medications) = Cardinality(MedicationNames)
    /\ \E k \in 1..Len(Body.medications) : Body.medications[k].patientCount >= 2

AgeBuckets == {"<30", "30-49", "50-64", "65+"}

InAgeBucket(bucket, age) ==
    CASE bucket = "<30" -> age < 30
      [] bucket = "30-49" -> 30 <= age /\ age < 50
      [] bucket = "50-64" -> 50 <= age /\ age < 65
      [] OTHER -> age >= 65

\* the sum of the counts of a frequency map
RECURSIVE TotalOf(_)
TotalOf(map) ==
    IF DOMAIN map = {} THEN 0
    ELSE LET k == CHOOSE x \in DOMAIN map : TRUE
         IN  map[k] + TotalOf([x \in DOMAIN map \ {k} |-> map[x]])

\* the age calculate_demographics reads from a record
AgeOf(p) == Get(p, "age", 50)

\* C9: calculate_demographics counts every patient in exactly one age bucket
\* (<30, 30-49, 50-64, 65+ by the cut points 30, 50, 65), the age-bucket
\* counts and the gender counts each sum to the number of patients, and the
\* ages [25, 45, 70] give {<30: 1, 30-49: 1, 65+: 1} with no 50-64 key.
C9_AgeBuckets ==
    IsAnswer("medication", "demographics") =>
        LET in(bucket) == {i \in 1..Len(Cohort) : InAgeBucket(bucket, AgeOf(Cohort[i]))}
        IN  /\ DOMAIN Body.ageGroups = {b \in AgeBuckets : in(b) # {}}
            /\ \A b \in DOMAIN Body.ageGroups : Body.ageGroups[b] = Cardinality(in(b))
            /\ TotalOf(Body.ageGroups) = Len(Cohort)
            /\ TotalOf(Body.genderDistribution) = Len(Cohort)
            /\ [i \in 1..Len(Cohort) |-> AgeOf(Cohort[i])] = <<25, 45, 70>> =>
                    Body.ageGroups = ("<30" :> 1) @@ ("30-49" :> 1) @@ ("65+" :> 1)

\* C9 witness: the demographics of three patients aged 25, 45 and 70
C9_Witness ==
    /\ IsAnswer("medication", "demographics")
    /\ [i \in 1..Len(Cohort) |-> AgeOf(Cohort[i])] = <<25, 45, 70>>
    /\ "50-64" \notin DOMAIN Body.ageGroups
    /\ TotalOf(Body.ageGroups) = 3

NumericFields ==
    {"age", "adherenceRate", "adherence_rate", "riskScore", "risk_score", "avgRefillGap"}

ListFields == {"medications", "chronicConditions"}

\* the store with the field set in record i when the record lacks it
FilledIn(i, field, value) ==
    [patients EXCEPT ![i] = IF field \in DOMAIN @ THEN @ ELSE (field :> value) @@ @]

\* the response is the one the same request gets on the store ps
SameAnswerOn(ps) ==
    /\ IsAnswer("medication", "demographics") =>
            Body = calculate_demographics(MedPatients(ps, req.event.id))
    /\ IsAnswer("medication", "forecast") =>
            Body.forecast = generate_forecast(MedPatients(ps, req.event.id), 30, now.day)
    /\ IsAnswer("medication", "analytics") =>
            Body.conditionComparison =
                calculate_condition_comparison(MedPatients(ps, req.event.id),
                                               req.event.id)
    /\ IsAnswer("dashboard", "top-medications") =>
            Body.medications = get_medication_risks(ps)
    /\ IsAnswer("patient", "risk") =>
            Body.shapValues = generate_shap_explanations(GetItem(ps, "id", req.event.id))

\* a record that lacks a numeric field answers as with the field set to 0
\* (the age: to age_default), one that lacks a list as with the empty list
MissingFieldsAs(age_default) ==
    \A i \in 1..Len(patients) :
        /\ \A f \in NumericFields :
                SameAnswerOn(FilledIn(i, f, IF f = "age" THEN age_default ELSE 0))
        /\ \A f \in ListFields : SameAnswerOn(FilledIn(i, f, <<>>))

\* C10 as stated: for calculate_demographics, get_medication_risks,
\* generate_forecast, calculate_condition_comparison and
\* generate_shap_explanations a record that lacks a numeric field (age,
\* adherence rate, risk score, average refill gap) gives the result of the
\* record with the field set to 0, and one that lacks a list field that of
\* the record with an empty list.
C10_MissingIsZero == MissingFieldsAs(0)

\* C10 amended: as C10, except that a record that lacks the age gives the
\* result of the record with age 50.
C10_MissingAgeIsFifty == MissingFieldsAs(50)

\* C10 witness: the demographics of a medication whose patients include one
\* without an age, counted in the bucket 50-64
C10_Witness ==
    /\ IsAnswer("medication", "demographics")
    /\ \E i \in 1..Len(Cohort) : "age" \notin DOMAIN Cohort[i]
    /\ \A i \in 1..Len(Cohort) : "age" \in DOMAIN Cohort[i] => Cohort[i]["age"] < 50
    /\ "50-64" \in DOMAIN Body.ageGroups

-----------------------------------------------------------------------------
(* Forecast and trend properties, under SpecAgg *)

\* the current mean adherence m of the cohort, as the fraction <<sum, count>>
\* of the values the medication handler reads (0 for a record without one)
CohortMean ==
    IF Cohort = <<>> THEN <<0, 1>>
    ELSE <<SumSeq([i \in 1..Len(Cohort) |-> Get(Cohort[i], "adherenceRate", 0)]),
           Len(Cohort)>>

\* clamp(m - 0.001 * i, 0, 1), in thousandths, as a fraction
PredictedAt(i) ==
    LET n == CohortMean[1] - i * CohortMean[2]
    IN  <<Max2(0, Min2(1000 * CohortMean[2], n)), CohortMean[2]>>

\* max(0, predicted - (0.05 + 0.001 * i)) and min(1, predicted + (0.05 + 0.001 * i))
LowerAt(i) ==
    <<Max2(0, PredictedAt(i)[1] - (50 + i) * CohortMean[2]), CohortMean[2]>>

UpperAt(i) ==
    <<Min2(1000 * CohortMean[2], PredictedAt(i)[1] + (50 + i) * CohortMean[2]),
      CohortMean[2]>>

\* a reported number of thousandths is exactly the fraction
IsExactly(x, f) == x * f[2] = f[1]

\* a reported number of thousandths is the fraction rounded to three decimals:
\* within half a thousandth of it
IsRounded(x, f) == 2 * Abs(x * f[2] - f[1]) <= f[2]

\* what follows from the formulas: `days` points in increasing date order from
\* "now", lower <= predicted <= upper, all within [0, 1], predicted never
\* increasing, and the example m = 0.8, i = 10
ForecastShape(forecast) ==
    /\ Len(forecast) = 30
    /\ \A k \in 1..Len(forecast) :
            /\ forecast[k].date = now.day + (k - 1)
            /\ 0 <= forecast[k].confidenceLower
            /\ forecast[k].confidenceLower <= forecast[k].predictedAdherence
            /\ forecast[k].predictedAdherence <= forecast[k].confidenceUpper
            /\ forecast[k].confidenceUpper <= 1000
    /\ \A k \in 1..(Len(forecast) - 1) :
            forecast[k + 1].predictedAdherence <= forecast[k].predictedAdherence
    /\ IsExactly(800, CohortMean) =>
            /\ forecast[11].predictedAdherence = 790
            /\ forecast[11].confidenceLower = 730
            /\ forecast[11].confidenceUpper = 850

\* C11 as stated: generate_forecast returns `days` points for the offsets
\* 0..days-1 in increasing date order, with predictedAdherence equal to
\* clamp(m - 0.001*i, 0, 1), confidenceLower equal to max(0, predicted - w) and
\* confidenceUpper equal to min(1, predicted + w) for w = 0.05 + 0.001*i.
C11_ForecastIsFormula ==
    IsAnswer("medication", "forecast") =>
        /\ ForecastShape(Body.forecast)
        /\ \A k \in 1..Len(Body.forecast) :
                /\ IsExactly(Body.forecast[k].predictedAdherence, PredictedAt(k - 1))
                /\ IsExactly(Body.forecast[k].confidenceLower, LowerAt(k - 1))
                /\ IsExactly(Body.forecast[k].confidenceUpper, UpperAt(k - 1))

\* C11 amended: as C11, with each of the three numbers of a point reported
\* rounded to three decimals; a point is a function of the current mean m,
\* the offset i and "now" only, so two calls with the same m and the same
\* "now" return the same list.
C11_ForecastIsRoundedFormula ==
    IsAnswer("medication", "forecast") =>
        /\ ForecastShape(Body.forecast)
        /\ \A k \in 1..Len(Body.forecast) :
                /\ IsRounded(Body.forecast[k].predictedAdherence, PredictedAt(k - 1))
                /\ IsRounded(Body.forecast[k].confidenceLower, LowerAt(k - 1))
                /\ IsRounded(Body.forecast[k].confidenceUpper, UpperAt(k - 1))

\* C11 witness: the forecast of a cohort whose current mean is 0.8, with the
\* point of offset 10 at 0.79 between 0.73 and 0.85
C11_Witness ==
    /\ IsAnswer("medication", "forecast")
    /\ Cohort # <<>>
    /\ IsExactly(800, CohortMean)
    /\ Body.forecast[11] = [date |-> now.day + 10, predictedAdherence |-> 790,
                            confidenceLower |-> 730, confidenceUpper |-> 850]

\* the records that define adherence_rate, and their mean as a fraction
DefinedRates ==
    LET defined == {i \in 1..Len(patients) : "adherence_rate" \in DOMAIN patients[i]}
    IN  IF defined = {} THEN <<0, 1>>
        ELSE <<SumSeq([i \in 1..Len(patients) |->
                        IF i \in defined THEN patients[i]["adherence_rate"] ELSE 0]),
               Cardinality(defined)>>

\* clamp(f + v, 0, 1) for a fraction f and v thousandths
ClampedShift(f, v) ==
    <<Max2(0, Min2(1000 * f[2], f[1] + v * f[2])), f[2]>>

\* N points, oldest first, each within [0, 1] and each the overall mean
\* perturbed by at most 0.05 either way, clamped and rounded
TrendAround(trend, months, mean) ==
    /\ Len(trend) = months
    /\ \A k \in 1..(Len(trend) - 1) : trend[k].date <= trend[k + 1].date
    /\ \A k \in 1..Len(trend) :
            /\ 0 <= trend[k].adherenceRate /\ trend[k].adherenceRate <= 1000
            /\ 2 * (trend[k].adherenceRate * mean[2] - ClampedShift(mean, 50)[1])
                    <= mean[2]
            /\ 2 * (ClampedShift(mean, -50)[1] - trend[k].adherenceRate * mean[2])
                    <= mean[2]

\* C12: the adherence trend has N points ordered oldest to newest, each rate
\* within [0, 1] and each the overall mean adherence rate (the mean of
\* adherence_rate over the records that define it, reported as adherenceRate
\* by the same get_dashboard_metrics response) perturbed by at most 0.05;
\* get_adherence_trends uses N = 12 iff range is '12months', else N = 6.
C12_TrendAroundOverallMean ==
    /\ IsAnswer("dashboard", "metrics") =>
            /\ IsRounded(Body.adherenceRate, DefinedRates)
            /\ TrendAround(Body.adherenceTrend, 6, DefinedRates)
    /\ IsAnswer("dashboard", "trends") =>
            TrendAround(Body.trends,
                        IF Get(req.event.query, "range", "6months") = "12months"
                        THEN 12 ELSE 6,
                        DefinedRates)

-----------------------------------------------------------------------------
(* Pagination, under SpecPage *)

\* the records of the store that pass the risk and condition filters of the
\* request, as the set of their positions
Filtered ==
    LET q == req.event.query
        score(i) == Get(patients[i], "riskScore", 0)
        risk_ok(i) ==
            CASE Get(q, "risk", "") = "high" -> score(i) >= 700
              [] Get(q, "risk", "") = "medium" -> 400 <= score(i) /\ score(i) < 700
              [] Get(q, "risk", "") = "low" -> score(i) < 400
              [] OTHER -> TRUE
        condition_ok(i) ==
            "condition" \in DOMAIN q =>
                \E j \in 1..Len(Get(patients[i], "chronicConditions", <<>>)) :
                    patients[i]["chronicConditions"][j] = q["condition"]
    IN  {i \in 1..Len(patients) : risk_ok(i) /\ condition_ok(i)}

\* the rank of a record among the filtered ones, by risk score descending
\* (the scores of the store are pairwise different)
RankOf(p) ==
    Cardinality({i \in Filtered : Get(patients[i], "riskScore", 0) > Get(p, "riskScore", 0)}) + 1

ListAnswered ==
    /\ Responded
    /\ req.handler = "patient"
    /\ req.event.httpMethod = "GET"
    /\ req.event.id = ""
    /\ HasStatus(200)
    /\ Body.limit >= 0
    /\ Body.offset >= 0

\* C13: for limit >= 0 and offset >= 0, list_patients returns exactly the
\* patients at ranks offset+1 .. offset+limit (fewer when the list is
\* shorter) of the filtered list sorted by risk score descending, and total
\* is the size of the filtered list whatever limit and offset are; limit=10
\* and offset=5 on 20 patients give the patients ranked 6 to 15.
C13_Pagination ==
    ListAnswered =>
        LET page == Body.patients
            last == Min2(Body.offset + Body.limit, Cardinality(Filtered))
        IN  /\ Body.total = Cardinality(Filtered)
            /\ Body.limit = IntOf(Get(req.event.query, "limit", "50"))
            /\ Body.offset = IntOf(Get(req.event.query, "offset", "0"))
            /\ Len(page) = Max2(0, last - Body.offset)
            /\ \A k \in 1..Len(page) :
                    /\ \E i \in Filtered : patients[i] = page[k]
                    /\ RankOf(page[k]) = Body.offset + k
            /\ (Body.limit = 10 /\ Body.offset = 5 /\ Cardinality(Filtered) = 20) =>
                    [k \in 1..Len(page) |-> RankOf(page[k])] = [k \in 1..10 |-> k + 5]

\* C13 witness: limit=10 and offset=5 on 20 patients, answered with the ten
\* patients ranked 6 to 15
C13_Witness ==
    /\ ListAnswered
    /\ Len(patients) = 20
    /\ Body.limit = 10 /\ Body.offset = 5 /\ Body.total = 20
    /\ Len(Body.patients) = 10
    /\ RankOf(Body.patients[1]) = 6
    /\ RankOf(Body.patients[10]) = 15

-----------------------------------------------------------------------------
(* Alert properties, under SpecAlerts *)

\* r is the request of a call of the function or a handler of that name
IsCall(r, name) == "handler" \in DOMAIN r /\ r.handler = name

\* the records of a table that carry the id
WithAlertId(table, id) == {i \in 1..Len(table) : table[i]["id"] = id}

\* a record without its acknowledgment
Unacknowledged(a) ==
    [k \in DOMAIN a \ {"acknowledgedAt", "acknowledgedBy"} |-> a[k]]

\* C14: a call of acknowledge_alert on an alert id, the second one on the
\* same id included, succeeds; afterwards the alerts store holds exactly one
\* record for the id, with all its other fields and every other record as
\* before, and its acknowledgedAt and acknowledgedBy are those of this call.
C14_AcknowledgeTwice ==
    [][(resp = Idle /\ IsCall(req', "acknowledge_alert")) =>
        LET id == req'.event.alert_id
            before == WithAlertId(alerts, id)
            after == WithAlertId(alerts', id)
        IN  /\ Cardinality(after) = 1
            /\ resp' = alerts'[CHOOSE j \in after : TRUE]
            /\ resp'.acknowledgedAt = IsoFormat(now)
            /\ resp'.acknowledgedBy = req'.event.user_id
            /\ \A i \in before :
                    /\ Unacknowledged(alerts'[i]) = Unacknowledged(alerts[i])
                    /\ Len(alerts') = Len(alerts)
            /\ \A i \in 1..Len(alerts) : i \notin before => alerts'[i] = alerts[i]]_vars

\* C14 witness: the alert the fixture holds acknowledged by "u" has been
\* acknowledged a second time, by "v", and is otherwise as it was
C14_Witness ==
    /\ IsCall(req, "acknowledge_alert")
    /\ req.event.alert_id = FixtureAlerts[2]["id"]
    /\ Cardinality(WithAlertId(alerts, FixtureAlerts[2]["id"])) = 1
    /\ resp.acknowledgedBy = "v"
    /\ resp.acknowledgedAt = IsoFormat(now)
    /\ resp.acknowledgedAt # FixtureAlerts[2]["acknowledgedAt"]
    /\ Unacknowledged(resp) = Unacknowledged(FixtureAlerts[2])
    /\ alerts[2] = resp

\* get_active_alerts has answered
ActiveAlertsAnswered ==
    /\ IsCall(req, "dashboard")
    /\ HasStatus(200)
    /\ "alerts" \in DOMAIN Body

\* C15: acknowledged is terminal: a stored alert that carries acknowledgedAt
\* carries it after every later call of create_alert, acknowledge_alert and
\* get_active_alerts, and get_active_alerts does not return its id.
C15_AcknowledgedIsTerminal ==
    [][\A i \in 1..Len(alerts) :
            Has(alerts[i], "acknowledgedAt") =>
                /\ \E j \in 1..Len(alerts') :
                        /\ alerts'[j]["id"] = alerts[i]["id"]
                        /\ Has(alerts'[j], "acknowledgedAt")
                /\ ActiveAlertsAnswered' =>
                        \A k \in 1..Len(Body'.alerts) :
                            Body'.alerts[k]["id"] # alerts[i]["id"]]_vars

\* the step is a successful create call on the table: the call of that name,
\* or the handler's response of that status
Creates(name, code) ==
    /\ resp = Idle
    /\ \/ IsCall(req', name)
       \/ /\ code # 0
          /\ IsCall(req', IF name = "add_care_note" THEN "patient" ELSE "prediction")
          /\ "statusCode" \in DOMAIN resp'
          /\ resp'.statusCode = code

\* the create call has added one record under an id the table did not hold
\* and has left the records of the table as they were
AddsOne(before, after, key) ==
    /\ Len(after) = Len(before) + 1
    /\ SubSeq(after, 1, Len(before)) = before
    /\ \A i \in 1..Len(before) : before[i][key] # after[Len(after)][key]

\* C16: every call of create_alert, add_care_note, start_batch_prediction and
\* create_schedule mints an id that no earlier call of the operation has
\* minted, whatever the timing, so it adds one record and overwrites none.
C16_CreateMintsFreshId ==
    [][/\ Creates("create_alert", 0) => AddsOne(alerts, alerts', "id")
       /\ Creates("add_care_note", 201) => AddsOne(notes, notes', "id")
       /\ (Creates("start_batch_prediction", 202) /\ jobs' # jobs) =>
                AddsOne(jobs, jobs', "jobId")
       /\ (Creates("create_schedule", 201) /\ jobs' = jobs) =>
                AddsOne(schedules, schedules', "scheduleId")]_vars

-----------------------------------------------------------------------------
(* Prediction job properties, under SpecJobs *)

JobStatusChanges ==
    {<<"pending", "running">>, <<"running", "completed">>, <<"running", "failed">>}

RunningJobAnswered ==
    /\ IsCall(req, "prediction")
    /\ req.event.httpMethod = "GET"
    /\ req.event.id # ""
    /\ HasStatus(200)
    /\ \E i \in 1..Len(jobs) :
            jobs[i].jobId = req.event.id /\ jobs[i].status = "running"

\* C18: for a job whose stored status is running, get_job_status returns
\* what the batch adapter reports, which the stub fixes at running with
\* progress 50.
C18_RunningJobReportsAdapter ==
    RunningJobAnswered =>
        /\ Body.status = check_sagemaker_job_status(req.event.id).status
        /\ Body.progress = check_sagemaker_job_status(req.event.id).progress
        /\ Body.status = "running"
        /\ Body.progress = 50

-----------------------------------------------------------------------------
(* Error-handling properties, under Spec *)

\* the text-generation routes of the genai handler
TextRoutes == {"chat", "explain", "script"}

\* the request reached chat, explain_prediction or generate_script with a
\* body that parses
TextRouteAnswered ==
    /\ IsCall(req, "genai")
    /\ Responded
    /\ req.event.httpMethod = "POST"
    /\ req.event.body.kind \in {"absent", "json"}
    /\ \E x \in TextRoutes : Contains(req.event.path, <<x>>)

\* the text the response carries in-band
TextOf(body) ==
    IF "message" \in DOMAIN body THEN body.message
    ELSE IF "explanation" \in DOMAIN body THEN body.explanation
    ELSE body.script

ApologyText ==
    <<"I apologize, but I couldn't generate a response. Please try again.">>

FailureText == <<"I encountered an error", "Please try again.">>

\* C19: invoke_bedrock never raises: whatever the model call does, chat,
\* explain_prediction and generate_script never answer 500, and whenever
\* the model has been invoked the answer is 200 and carries in-band the
\* generated text, the apology or the error text.
C19_BedrockFailureIsInBand ==
    TextRouteAnswered =>
        /\ resp.statusCode \in {200, 400, 404}
        /\ extCalls # <<>> =>
                /\ HasStatus(200)
                /\ \/ TextOf(Body) \in {ApologyText, FailureText}
                   \/ Len(TextOf(Body)) = 2 /\ TextOf(Body)[1] = "reply"

\* C19 witness: the model call has failed and chat has answered 200 with the
\* error text as its message
C19_Witness ==
    /\ TextRouteAnswered
    /\ Contains(req.event.path, <<"chat">>)
    /\ extCalls # <<>>
    /\ HasStatus(200)
    /\ Body.message = FailureText

\* the request r is a lookup by id of a record the stores do not hold
LookupMisses(r, ps, jb, sc) ==
    LET e == r.event
        has(segment) == Contains(e.path, <<segment>>)
        holds(table, key, id) == \E i \in 1..Len(table) : table[i][key] = id
    IN  CASE IsCall(r, "patient") ->
                /\ e.httpMethod = "GET" /\ e.id # ""
                /\ has("medications") \/ has("risk")
                        \/ (~has("interventions") /\ ~has("notes"))
                /\ ~holds(ps, "id", e.id)
          [] IsCall(r, "genai") ->
                /\ e.httpMethod = "POST" /\ e.body.kind = "json"
                /\ ~has("chat") /\ ~Contains(e.path, <<"context", "reset">>)
                /\ has("explain") \/ has("script")
                /\ Get(e.body.value, "patientId", "") # ""
                /\ ~holds(ps, "id", e.body.value["patientId"])
          [] IsCall(r, "prediction") ->
                /\ e.httpMethod = "GET" /\ e.id # ""
                /\ \/ has("jobs") /\ ~holds(jb, "jobId", e.id)
                   \/ ~has("jobs") /\ has("schedules") /\ ~holds(sc, "scheduleId", e.id)
          [] OTHER -> FALSE

\* C20: a lookup by id that finds no record (get_patient_details,
\* get_patient_medications, get_patient_risk, explain_prediction,
\* generate_script, get_job_status, get_schedule) is answered 404, writes to
\* no store and calls no external service.
C20_MissingRecordIs404 ==
    [][(resp = Idle /\ resp' # Idle /\ LookupMisses(req', patients, jobs, schedules)) =>
            /\ resp'.statusCode = 404
            /\ DOMAIN resp'.body.json = {"error"}
            /\ extCalls' = <<>>
            /\ UNCHANGED <<patients, interventions, notes, alerts, jobs, schedules,
                           conversations, rules>>]_vars

\* C20 witness: explain_prediction has answered 404 for a patient id the
\* store does not hold, without invoking the model
C20_Witness ==
    /\ Responded
    /\ LookupMisses(req, patients, jobs, schedules)
    /\ IsCall(req, "genai")
    /\ Contains(req.event.path, <<"explain">>)
    /\ HasStatus(404)
    /\ extCalls = <<>>

-----------------------------------------------------------------------------
(* Required fields, under Spec *)

\* the request r lacks the field its operation requires: patientId
\* (explain_prediction, generate_script), conversationId (get_context,
\* reset_context), datasetUri (training), inputDataUri (inference), one of
\* name/frequency/enabled (update_schedule) or the schedule id
\* (update_schedule, delete_schedule); its body, if it has one, parses
LacksRequiredField(r) ==
    LET e == r.event
        has(segment) == Contains(e.path, <<segment>>)
        parses == e.body.kind \in {"absent", "json"}
        body == IF e.body.kind = "json" THEN e.body.value ELSE <<>>
        reset == Contains(e.path, <<"context", "reset">>)
    IN  CASE IsCall(r, "genai") ->
                \/ /\ e.httpMethod = "POST" /\ parses /\ ~has("chat")
                   /\ \/ reset /\ Get(body, "conversationId", "") = ""
                      \/ /\ ~reset /\ (has("explain") \/ has("script"))
                         /\ Get(body, "patientId", "") = ""
                \/ /\ e.httpMethod = "GET" /\ has("context")
                   /\ Get(e.query, "conversationId", "") = ""
          [] IsCall(r, "training") -> parses /\ Get(body, "datasetUri", "") = ""
          [] IsCall(r, "inference") -> parses /\ Get(body, "inputDataUri", "") = ""
          [] IsCall(r, "prediction") ->
                /\ has("schedules")
                /\ \/ /\ e.httpMethod = "PUT" /\ parses
                      /\ \/ e.id = ""
                         \/ DOMAIN body \cap {"name", "frequency", "enabled"} = {}
                   \/ e.httpMethod = "DELETE" /\ e.id = ""
          [] OTHER -> FALSE

\* C21: a request that lacks its required field is answered 400, and the
\* invocation writes to no store and calls no external service.
C21_MissingFieldIs400 ==
    [][(resp = Idle /\ resp' # Idle /\ LacksRequiredField(req')) =>
            /\ resp'.statusCode = 400
            /\ extCalls' = <<>>
            /\ UNCHANGED <<patients, interventions, notes, alerts, jobs, schedules,
                           conversations, rules>>]_vars

-----------------------------------------------------------------------------
(* Idempotency of updates and deletes, under SpecRetry *)

\* the request r reaches reset_context, update_schedule or delete_schedule
KeyedOperation(r) ==
    LET e == r.event
        parses == e.body.kind \in {"absent", "json"}
    IN  \/ /\ r.handler = "genai" /\ e.httpMethod = "POST" /\ parses
           /\ ~Contains(e.path, <<"chat">>)
           /\ Contains(e.path, <<"context", "reset">>)
        \/ /\ r.handler = "prediction" /\ e.httpMethod = "PUT" /\ parses
           /\ Contains(e.path, <<"schedules">>)
        \/ /\ r.handler = "prediction" /\ e.httpMethod = "DELETE"
           /\ Contains(e.path, <<"schedules">>)

\* the step applies the operation of req a second time
SecondApplication ==
    /\ resp # Idle
    /\ "attempt" \notin DOMAIN req
    /\ "attempt" \in DOMAIN req'
    /\ KeyedOperation(req)

\* the schedules without the nextRun that update_schedule computes from
\* the clock
WithoutNextRun(table) ==
    [i \in 1..Len(table) |->
        [k \in DOMAIN table[i] \ {"nextRun"} |-> table[i][k]]]

\* the second application sets a frequency
SetsFrequency(r) ==
    /\ r.handler = "prediction" /\ r.event.httpMethod = "PUT"
    /\ r.event.body.kind = "json"
    /\ "frequency" \in DOMAIN r.event.body.value

\* C22 as stated: applying reset_context, delete_schedule or update_schedule
\* a second time with the same arguments leaves the record store as the
\* first application left it and answers with the same status code.
C22_TwiceIsOnce ==
    [][SecondApplication =>
            /\ schedules' = schedules
            /\ conversations' = conversations
            /\ resp'.statusCode = resp.statusCode]_vars

\* C22 amended: the second application answers with the same status code
\* and leaves the record store as the first left it, except that an
\* update_schedule which sets a frequency stores the nextRun it computes
\* from the clock at the time of the call.
C22_TwiceIsOnceUpToNextRun ==
    [][SecondApplication =>
            /\ WithoutNextRun(schedules') = WithoutNextRun(schedules)
            /\ ~SetsFrequency(req) => schedules' = schedules
            /\ conversations' = conversations
            /\ resp'.statusCode = resp.statusCode]_vars

\* C22 witness: update_schedule has been applied a second time with a
\* frequency, at a later clock value than the stored schedule was created
\* at, and has answered 200
C22_Witness ==
    /\ "attempt" \in DOMAIN req
    /\ KeyedOperation(req)
    /\ SetsFrequency(req)
    /\ HasStatus(200)
    /\ Len(schedules) = 1
    /\ schedules[1]["nextRun"][3] = 1

-----------------------------------------------------------------------------
(* start_batch_prediction, under SpecBatch *)

\* start_batch_prediction has finished and lambda_handler has answered
BatchAnswered ==
    /\ Responded
    /\ IsCall(req, "prediction")
    /\ req.event.httpMethod = "POST"
    /\ Contains(req.event.path, <<"batch">>)
    /\ req.event.body.kind \in {"absent", "json"}
    /\ "statusCode" \in DOMAIN resp

\* the job the last start_batch_prediction created
CreatedJob == GetItem(jobs, "jobId", JobId(minted))

SubmissionRaised == extCalls # <<>> /\ extCalls[1].raised

\* C23: once start_batch_prediction has finished, the job it created is not
\* pending: if the submission succeeded the job is running with a startedAt
\* timestamp and the answer is 202; if the submission raised the job is
\* failed with the exception text as errorMessage and the answer is 500
\* with that text.
C23_BatchJobLeavesPending ==
    BatchAnswered =>
        /\ CreatedJob # None
        /\ CreatedJob.status # "pending"
        /\ ~SubmissionRaised =>
                /\ CreatedJob.status = "running"
                /\ "startedAt" \in DOMAIN CreatedJob
                /\ "errorMessage" \notin DOMAIN CreatedJob
                /\ HasStatus(202)
        /\ SubmissionRaised =>
                /\ CreatedJob.status = "failed"
                /\ "errorMessage" \in DOMAIN CreatedJob
                /\ HasStatus(500)
                /\ Body = [error |-> CreatedJob.errorMessage]

\* C23 witness: the submission has raised, the job is stored as failed and
\* the answer is 500
C23_Witness ==
    /\ BatchAnswered
    /\ SubmissionRaised
    /\ CreatedJob # None
    /\ CreatedJob.status = "failed"
    /\ HasStatus(500)

-----------------------------------------------------------------------------
(* Failures of the scheduling service, under Spec *)

\* the request r reaches create_schedule
CreatesSchedule(r) ==
    /\ IsCall(r, "prediction")
    /\ r.event.httpMethod = "POST"
    /\ ~Contains(r.event.path, <<"batch">>)
    /\ Contains(r.event.path, <<"schedules">>)
    /\ r.event.id = ""
    /\ r.event.body.kind \in {"absent", "json"}

\* the request r reaches delete_schedule with a schedule id
DeletesSchedule(r) ==
    /\ IsCall(r, "prediction")
    /\ r.event.httpMethod = "DELETE"
    /\ Contains(r.event.path, <<"schedules">>)
    /\ r.event.id # ""

HasRule(rs, schedule_id) == \E r \in rs : r.name = RuleName(schedule_id)

\* C24: whether the scheduling service raises or not, create_schedule calls
\* it, persists the schedule it returns and answers 201, and delete_schedule
\* calls it, deletes the schedule row and answers 204.
C24_SchedulingFailureIsIgnored ==
    [][(resp = Idle /\ resp' # Idle) =>
            /\ CreatesSchedule(req') =>
                    /\ resp'.statusCode = 201
                    /\ minted' = minted + 1
                    /\ GetItem(schedules', "scheduleId", ScheduleId(minted'))
                            = resp'.body.json
                    /\ extCalls' # <<>>
            /\ DeletesSchedule(req') =>
                    /\ resp'.statusCode = 204
                    /\ GetItem(schedules', "scheduleId", req'.event.id) = None
                    /\ extCalls' # <<>>]_vars

\* C24 witness: delete_eventbridge_rule has raised, delete_schedule has
\* answered 204, the schedule row is gone and its rule still exists
C24_Witness ==
    /\ Responded
    /\ DeletesSchedule(req)
    /\ HasStatus(204)
    /\ GetItem(schedules, "scheduleId", req.event.id) = None
    /\ HasRule(rules, req.event.id)

-----------------------------------------------------------------------------
(* Conversation properties, under SpecChat *)

\* the messages stored for the conversation the requests name
Stored(table) == get_conversation_history(table, "c1")

ChatBody(r) == r.event.body.value

NamesConversation(r) == "conversationId" \in DOMAIN ChatBody(r)

UserMessage(r) == [role |-> "user", content |-> <<ChatBody(r).message>>]

Holds(messages, m) == \E i \in 1..Len(messages) : messages[i] = m

\* ph is the last five messages of h, or all of h when it has fewer
IsLastFiveOf(ph, h) ==
    /\ Len(ph) = (IF Len(h) < 5 THEN Len(h) ELSE 5)
    /\ \A i \in 1..Len(ph) : ph[i] = h[Len(h) - Len(ph) + i]

\* invocation p takes the step
Moves(p) == req'[p] # req[p] \/ resp'[p] # resp[p]

\* C25: a chat request with a conversationId reads the history, then invokes
\* the model with a prompt made of at most the last 5 messages it read and
\* without its own message, and only then appends two messages, the user
\* message and after it the assistant response; a chat request without a
\* conversationId gets an empty history and never writes the store.
C25_ChatReadsInvokesThenAppends ==
    [][\A p \in Procs : Moves(p) =>
        /\ req[p] = Idle =>
                /\ conversations' = conversations
                /\ extCalls' = extCalls
                /\ resp'[p].pc = "invoke"
                /\ resp'[p].history =
                        (IF NamesConversation(req'[p]) THEN Stored(conversations)
                         ELSE <<>>)
                /\ ~Holds(Stored(conversations), UserMessage(req'[p]))
        /\ (req[p] # Idle /\ resp[p].pc = "invoke") =>
                /\ conversations' = conversations
                /\ IsLastFiveOf(extCalls'[1].prompt.history, resp[p].history)
                /\ ~Holds(extCalls'[1].prompt.history, UserMessage(req[p]))
                /\ ~Holds(Stored(conversations), UserMessage(req[p]))
                /\ resp'[p].pc = (IF NamesConversation(req[p]) THEN "save_user"
                                  ELSE "return")
        /\ (req[p] # Idle /\ resp[p].pc = "save_user") =>
                /\ NamesConversation(req[p])
                /\ Stored(conversations') =
                        Append(Stored(conversations), UserMessage(req[p]))
                /\ resp'[p].pc = "save_assistant"
        /\ (req[p] # Idle /\ resp[p].pc = "save_assistant") =>
                /\ Holds(Stored(conversations), UserMessage(req[p]))
                /\ Stored(conversations') =
                        Append(Stored(conversations),
                               [role |-> "assistant", content |-> resp[p].response])
                /\ resp'[p].pc = "return"
        /\ (req[p] # Idle /\ resp[p].pc = "return") =>
                /\ conversations' = conversations
                /\ NamesConversation(req[p])
                        <=> Holds(Stored(conversations), UserMessage(req[p]))]_vars

\* C25 witness: a request has read six stored messages and the model has
\* been invoked with the last five of them
C25_Witness ==
    \E p \in Procs :
        /\ req[p] # Idle
        /\ resp[p].pc = "save_user"
        /\ Len(resp[p].history) = 6
        /\ extCalls # <<>>
        /\ Len(extCalls[1].prompt.history) = 5
        /\ extCalls[1].prompt.message = ChatBody(req[p]).message

\* no chat invocation is in progress
Quiescent == \A p \in Procs : req[p] = Idle

\* m is the response the model generated for the question of user message u
AnswersQuestion(m, u) ==
    /\ m.role = "assistant"
    /\ m.content[1] = "reply" => m.content = <<"reply", u.content[1]>>

\* C29: after chat requests for the same conversationId have run
\* concurrently, the stored history consists of complete exchanges: every
\* user message is immediately followed by the assistant response generated
\* for it.
C29_CompleteExchanges ==
    Quiescent =>
        LET h == Stored(conversations)
        IN  \A i \in 1..Len(h) :
                /\ i % 2 = 1 <=> h[i].role = "user"
                /\ h[i].role = "user" =>
                        /\ i < Len(h)
                        /\ AnswersQuestion(h[i + 1], h[i])

-----------------------------------------------------------------------------
(* Per-medication endpoints, under SpecAgg *)

\* no stored patient has a medication entry of that name
NobodyTakes(name) ==
    \A i \in 1..Len(patients) :
        LET meds == Get(patients[i], "medications", <<>>)
        IN  \A j \in 1..Len(meds) : Get(meds[j], "name", "") # name

\* one of the four per-medication endpoints has answered
MedicationEndpointAnswered ==
    /\ Responded
    /\ IsCall(req, "medication")
    /\ req.event.httpMethod = "GET"
    /\ req.event.id # ""
    /\ \E sub \in MedicationSubPaths : Contains(req.event.path, <<sub>>)

\* C26: for a medication name that no stored patient takes,
\* get_medication_analytics, get_medication_trends,
\* get_medication_demographics and get_medication_forecast all answer 404
\* 'Medication not found'.
C26_UnknownMedicationIs404 ==
    (MedicationEndpointAnswered /\ NobodyTakes(req.event.id)) =>
        /\ HasStatus(404)
        /\ Body = [error |-> "Medication not found"]

-----------------------------------------------------------------------------
(* Termination of prediction jobs, under SpecPoll *)

\* the stored status of the n-th job, "none" while it is not stored
StatusOfJob(n) == Get(GetItem(jobs, "jobId", JobId(n)), "status", "none")

\* C27: every job that start_batch_prediction has put in status running
\* eventually has a terminal status, completed or failed, when clients keep
\* polling it with get_job_status.
C27_RunningJobTerminates ==
    \A n \in 1..MaxItems :
        (StatusOfJob(n) = "running") ~> (StatusOfJob(n) \in {"completed", "failed"})

-----------------------------------------------------------------------------
(* Deleted schedules, under SpecSchedules *)

\* create_schedule has stored a schedule of that id (m uuids drawn so far)
\* and sc holds no row of it: rows leave the store only by delete_schedule
Deleted(id, sc, m) ==
    /\ \E n \in 1..m : id = ScheduleId(n)
    /\ GetItem(sc, "scheduleId", id) = None

\* the step answers a GET on the schedule routes
ScheduleRead ==
    /\ resp = Idle /\ resp' # Idle
    /\ req'.event.httpMethod = "GET"

\* C28: a deleted schedule stays deleted: whatever create_schedule,
\* update_schedule, delete_schedule, get_schedule or list_schedules call
\* comes next, the store holds no row of its id, get_schedule on its id is
\* answered 404 and list_schedules does not list it.
C28_DeletedStaysDeleted ==
    [][\A n \in 1..MaxItems :
        Deleted(ScheduleId(n), schedules, minted) =>
            /\ Deleted(ScheduleId(n), schedules', minted')
            /\ (ScheduleRead /\ req'.event.id = ScheduleId(n)) =>
                    resp'.statusCode = 404
            /\ (ScheduleRead /\ req'.event.id = "") =>
                    \A i \in 1..Len(resp'.body.json.schedules) :
                        resp'.body.json.schedules[i]["scheduleId"] # ScheduleId(n)]_vars

-----------------------------------------------------------------------------
(* The 202 response of start_batch_prediction, under SpecBatch *)

\* the timestamps a job record carries
JobTimestamps(job) ==
    [k \in DOMAIN job \cap {"createdAt", "startedAt"} |-> job[k]]

\* C30: when start_batch_prediction answers 202, the job in the response
\* body has the jobId, the status and the timestamps of the job record in
\* the store, and a get_job_status on that id at that moment reports the
\* status of the body.
C30_AcceptedJobMatchesStore ==
    (BatchAnswered /\ HasStatus(202)) =>
        /\ CreatedJob # None
        /\ Body.jobId = CreatedJob.jobId
        /\ Body.status = CreatedJob.status
        /\ JobTimestamps(Body) = JobTimestamps(CreatedJob)
        /\ get_job_status(jobs, Body.jobId).resp.body.json["status"] = Body.status

====
